---- MODULE Spec2Model ----
(***************************************************************************)
(* Synchronization engine of daphen/notes: the server's /api/sync route    *)
(* (GET = pull, POST = push), in its two copies in the repository, and the *)
(* Go command-line callers that push to it and report the outcome; the     *)
(* change detector of the Go tool (internal/watcher) with the watch loops  *)
(* that consume it; the browser's optimistic store (lib/notes-store.tsx),   *)
(* in its two copies, with the /api/notes handlers it calls.               *)
(***************************************************************************)
EXTENDS Integers, Sequences, FiniteSets, TLC

\* ------------------------------------------------------------------ bounds
\* Largest value of the server clock (milliseconds abstracted to ticks).
MaxClock == 2
\* Number of POST /api/sync requests started in one behaviour.
MaxPushes == 3
\* Largest number of mutations in one batch.
MaxBatch == 2
\* Largest value of the workstation clock.
MaxTime == 13
\* Number of file-system events in one behaviour.
MaxEvents == 4
\* Number of user operations (add, edit, delete) in the browser.
MaxOps == 3
\* Invocations of notes-cli.
MaxRuns == 2
\* File operations next to the invocations of notes-cli.
MaxEdits == 2
\* The longest search query typed into the browse view.
MaxQuery == 2

\* --------------------------------------------------------------- constants
\* The workstation clock counts units of 50 ms.
\* 500*time.Millisecond, the detector's window.
DebounceWindow == 10

\* ------------------------------------------------------------- input sets
Paths == {"a.md", "b.md"}
\* "" stands for an absent or empty (falsy) JSON field.
Titles == {"", "T"}
Contents == {"", "# H"}
\* The two copies of the web application in the repository: of
\* app/api/sync/route.ts and of lib/notes-store.tsx.
Routes == {"src", "webapp"}
\* Concurrently served requests (the handler is async: requests interleave
\* at every awaited database statement).
Requests == {"r1", "r2"}
\* Who issues a push: a raw client of the wire protocol, or one of the Go
\* command-line modes.
Callers == {"api", "pushNotes", "watchBackground", "backgroundSync"}
GoCallers == {"pushNotes", "watchBackground", "backgroundSync"}

\* A timestamp column that is NULL; real times start at 1.
NoTime == 0
\* GET /api/sync without ?since=
NoSince == -1
NoRow == [exists |-> FALSE]
NoMut == [action |-> "none"]
Idle == [phase |-> "idle"]
NoPull == [since |-> -2]
NoReport == [caller |-> "none"]
\* Names under the watched directory: the notes and a file that is no note.
Names == Paths \cup {"n.txt"}
\* fsnotify operations: a write of the content, and one that is no write.
Ops == {"WRITE", "CHMOD"}
\* No entry in the debounce map.
NoStamp == -1
\* Nothing being sent on the changes channel.
NoChange == [action |-> "none"]
\* Note ids in the browser: a note the server confirmed before the page was
\* loaded, the temporary id addNote gives a new note, and the id the server
\* gives that note when it creates it.
Ids == {"n1", "temp-1", "s1"}
\* What an edit sets: title and content (the editor always passes both).
Edits == {[title |-> "T", content |-> ""], [title |-> "U", content |-> "# H"]}
\* No mutation (an empty slot, an absent payload).
NoEntry == [type |-> "none"]
\* The modes of notes-cli: -init, -push, -pull, -create, -watch, and the
\* browser (no flag).
Modes == {"init", "push", "pull", "create", "watch", "browse"}
\* No invocation of notes-cli in progress. pc: "idle", "config" (before
\* config.Load), "auth" (before Authenticate), "body" (in the function of
\* the mode), "watch" (in the watch loop), "done" (the process has ended);
\* cfg, auth: config.Load and Authenticate have succeeded; err: the process
\* ended through log.Fatalf;
\* restored: the files a pull of this invocation created.
NoRun == [mode |-> "none", pc |-> "idle", cfg |-> FALSE, auth |-> FALSE, err |-> FALSE,
          restored |-> {}]
\* A note file that does not exist.
NoFile == "<absent>"
\* What happens to a request: answered, applied with the answer lost, or
\* never received.
Nets == {"ok", "lost", "down"}
\* The times of the writes of the specification's example of the detector:
\* 0, 100, 600 and 650 ms.
ExampleTimes == <<0, 2, 12, 13>>

VARIABLES
    route,      \* which copy of the route is deployed
    now,        \* server clock, read by new Date()
    notes,      \* table notes: path -> row or NoRow (path is unique)
    syncLog,    \* table sync_log: its number of rows (no handler reads them)
    reqs,       \* POST handlers in progress: request -> local state
    pushes,     \* number of POST handlers started
    last,       \* history: the last write completed per path: "none", "insert",
                \* "overwrite" (upsert of an existing row) or "delete"
    lastUpsert, \* history: the last create/update mutation whose write completed,
                \* per path
    pulled,     \* the last GET reply
    report,     \* what the last Go caller printed / signalled
    clock,      \* workstation clock, read by time.Now()
    disk,       \* content of each note file of the watched directory
    nEvents,    \* number of file-system events so far
    debounce,   \* Watcher.debounce: name -> time of the last event let through
    changes,    \* the FileChange the detector is blocked sending, or NoChange
    loop,       \* the FileChange the watch loop is busy with (pushing it, then
                \* sleeping), or NoChange when it is receiving
    emits,      \* history: per path, the times at which a mutation was emitted
    example,    \* history: the number of events of a.md read so far, while they
                \* are the readable writes at the times of ExampleTimes; else -1
    clean,      \* history: per path, every event read so far was a write
                \* whose file could be read
    allSynced,  \* history: every push of the watch loop succeeded
    storeNotes, \* React state notes: the visible list (a set of notes with
                \* _syncStatus and _tempId; the order plays no part)
    syncQueue,  \* syncQueueRef: insertion-ordered Map key -> queued mutation
    processing, \* processingRef
    inflight,   \* the mutations whose network call is outstanding
    debounceTimer, \* debounceTimerRef: "off", "armed", or "due" (500 ms over)
    added,      \* addNote was called (one new note per behaviour)
    nOps,       \* number of user operations so far
    edited,     \* history: per id, "never" edited, edited "recent"ly (less
                \* than 500 ms ago) or "settled" (at least 500 ms ago)
    lastEdit,   \* history: per id, the values of the last updateNote
    burstCalls, \* history: per id, the update calls started since the first
                \* edit of the current burst (edits less than 500 ms apart)
    dirty,      \* history: ids edited while their create/update is in flight
    unconfirmedDeleted, \* history: temporary ids passed to deleteNote
    cache,      \* localStorage 'notes-offline-cache' (webapp copy)
    served,     \* the mutations in flight that the server has applied and
                \* whose answer has not come back yet
    pulling,    \* the GET handler between its query and its reply, or Idle
    seen,       \* history: per path, the row a client that pulls with the
                \* timestamp of its previous pull has received last
    shutdown,   \* the detector's end: "open", "closing" (Close was called),
                \* "closed" (the goroutine closed the channel), "exited"
                \* (the loop ranging over the channel returned)
    run,        \* the invocation of notes-cli in progress
    nRuns,      \* invocations of notes-cli started so far
    flight,     \* the changes whose push the watch loop has sent and that
                \* has not returned yet (the loop is inside client.Push)
    order,      \* history: the changes the detector of this invocation has
                \* emitted and the loop has not sent yet, oldest first
    browseNotes,    \* BrowseModel.notes: the list loaded from the directory
    filteredNotes,  \* BrowseModel.filteredNotes
    searchQuery,    \* BrowseModel.searchQuery
    cursorPosition, \* BrowseModel.cursorPosition
    width,          \* BrowseModel.width
    height,         \* BrowseModel.height
    selected        \* what GetSelectedNote returned last: Nil, a NoteMatch, or
                    \* Panicked when the index expression panicked

serverVars == <<route, now, notes, syncLog, reqs, pushes, last, lastUpsert, pulled, report>>
watchVars == <<clock, disk, nEvents, debounce, changes, loop, emits, example, clean, allSynced>>
storeVars == <<storeNotes, syncQueue, processing, inflight, debounceTimer, added, nOps,
               edited, lastEdit, burstCalls, dirty, unconfirmedDeleted, cache, served>>
uiVars == <<browseNotes, filteredNotes, searchQuery, cursorPosition, width, height, selected>>
cliVars == <<pulling, seen, shutdown, run, nRuns, flight, order, uiVars>>
\* The state that the server's POST handlers do not touch.
clientVars == <<watchVars, storeVars, cliVars>>
vars == <<serverVars, clientVars>>

Range(s) == {s[i] : i \in 1..Len(s)}

\* ------------------------------------------------- client-side processing
\* crypto/md5 of the content, hex encoded: a deterministic function of the
\* content, injective on the contents of the model.
CalculateChecksum(content) == "md5(" \o content \o ")"

\* First markdown heading of the content, else the capitalised file name
\* without .md, else "Untitled" (contents and paths of the model only).
ExtractTitle(content, path) ==
    IF content = "# H" THEN "H"
    ELSE IF path = "a.md" THEN "A"
    ELSE IF path = "b.md" THEN "B"
    ELSE "Untitled"

ProcessNote(path, content, action) ==
    [path |-> path, title |-> ExtractTitle(content, path), content |-> content,
     checksum |-> CalculateChecksum(content), action |-> action]

\* Mutations a raw client of the wire protocol may send.
\* It either omits the checksum (webapp/notes-sync.sh) or sends the hash of
\* the content.
ApiMutations ==
    {x \in [path : Paths, title : Titles, content : Contents,
            checksum : {""} \cup {CalculateChecksum(c) : c \in Contents},
            action : {"create", "update"}] :
        x.checksum \in {"", CalculateChecksum(x.content)}}
    \cup {[path |-> p, title |-> "", content |-> "", checksum |-> "", action |-> "delete"] :
        p \in Paths}

\* Those of them that carry every field (updates with a title and the hash
\* of the content), and the deletes.
FullMutations ==
    {m \in ApiMutations :
        m.action = "delete" \/ (m.action = "update" /\ m.title # "" /\ m.checksum # "")}

\* What sync_file of webapp/notes-sync.sh sends: path, content and the
\* action "update", neither title nor checksum.
ScriptMutations ==
    {m \in ApiMutations : m.action = "update" /\ m.title = "" /\ m.checksum = ""}

\* The Go callers send what ProcessNote makes of a file, always as "update".
GoMutations == {ProcessNote(p, c, "update") : p \in Paths, c \in Contents}

MutationsOf(caller) == IF caller = "api" THEN ApiMutations ELSE GoMutations

\* ------------------------------------------------------------ server: POST
\* JavaScript's  v || d  on strings.
OrDefault(v, d) == IF v = "" THEN d ELSE v

\* .values({...}) of the insert: the row created when the path is new.
InsertValues(m, t) ==
    [exists |-> TRUE,
     title |-> OrDefault(m.title, "Untitled"),
     content |-> OrDefault(m.content, ""),
     checksum |-> OrDefault(m.checksum, ""),
     updatedAt |-> t,
     deletedAt |-> NoTime]

\* Mutant: the conflict branch leaves the title of the existing row.
OnConflictKeepsTitle(rt, row, m, t) ==
    [row EXCEPT !.content = OrDefault(m.content, ""),
                !.checksum = OrDefault(m.checksum, ""),
                !.updatedAt = t,
                !.deletedAt = IF rt = "webapp" THEN NoTime ELSE @]

\* Mutant: the conflict branch appends the content to the existing content.
OnConflictAppends(rt, row, m, t) ==
    [row EXCEPT !.title = OrDefault(m.title, "Untitled"),
                !.content = @ \o OrDefault(m.content, ""),
                !.checksum = OrDefault(m.checksum, ""),
                !.updatedAt = t,
                !.deletedAt = IF rt = "webapp" THEN NoTime ELSE @]

\* .onConflictDoUpdate({set: {...}}): the row when the path already exists.
\* Only the webapp copy sets deletedAt: null.
OnConflictSet(rt, row, m, t) ==
    [row EXCEPT !.title = OrDefault(m.title, "Untitled"),
                !.content = OrDefault(m.content, ""),
                !.checksum = OrDefault(m.checksum, ""),
                !.updatedAt = t,
                !.deletedAt = IF rt = "webapp" THEN NoTime ELSE @]

Upsert(rt, rows, m, t) ==
    [rows EXCEPT ![m.path] =
        IF rows[m.path].exists THEN OnConflictSet(rt, rows[m.path], m, t)
        ELSE InsertValues(m, t)]

\* Mutant: the delete also blanks the content of the row.
SoftDeleteBlanks(rows, m, t) ==
    [rows EXCEPT ![m.path] =
        IF rows[m.path].exists
        THEN [rows[m.path] EXCEPT !.deletedAt = t, !.content = "", !.checksum = ""]
        ELSE @]

\* update(notes).set({deletedAt: new Date()}).where(eq(notes.path, path))
SoftDelete(rows, m, t) ==
    [rows EXCEPT ![m.path] =
        IF rows[m.path].exists THEN [rows[m.path] EXCEPT !.deletedAt = t] ELSE @]

\* The note write of one change.
WriteNote(rt, rows, m, t) ==
    IF m.action = "delete" THEN SoftDelete(rows, m, t) ELSE Upsert(rt, rows, m, t)

\* The local state of a POST handler right after the body is parsed:
\* 400 when clientId (or changes) is missing, else the loop over changes.
NewRequest(caller, clientId, n) ==
    [caller |-> caller, clientId |-> clientId, n |-> n,
     status |-> IF clientId = "" THEN 400 ELSE 200,
     sent |-> <<>>, accepted |-> <<>>, conflicts |-> <<>>, logFailed |-> {},
     phase |-> IF clientId = "" THEN "done" ELSE "loop"]

\* Where the handler stands once `done` of its rq.n changes are processed:
\* still in the loop, at the webapp copy's batched audit insert
\* (if (accepted.length > 0)), or at the reply.
PhaseAfter(rt, rq, done, nAccepted) ==
    IF done < rq.n THEN "loop"
    ELSE IF rt = "webapp" /\ nAccepted > 0 THEN "log"
    ELSE "done"

\* Mutant: a storage error ends the loop.
AfterItemAborts(rt, rq, m, wrote, logged) ==
    LET acc == IF wrote THEN Append(rq.accepted, m.path) ELSE rq.accepted
        con == IF ~wrote \/ (rt = "src" /\ ~logged)
               THEN Append(rq.conflicts, m.path) ELSE rq.conflicts
    IN [rq EXCEPT !.sent = Append(@, [path |-> m.path, wrote |-> wrote]),
                  !.accepted = acc,
                  !.conflicts = con,
                  !.logFailed = IF rt = "src" /\ wrote /\ ~logged THEN @ \cup {m.path} ELSE @,
                  !.phase = IF ~wrote THEN PhaseAfter(rt, rq, rq.n, Len(acc))
                            ELSE PhaseAfter(rt, rq, Len(rq.sent) + 1, Len(acc))]

\* One iteration of  for (const change of changes) { try {...} catch {...} }.
\* wrote: the note write completed without a storage error.
\* logged: the src copy's audit insert, inside the same try, completed.
AfterItem(rt, rq, m, wrote, logged) ==
    LET acc == IF wrote THEN Append(rq.accepted, m.path) ELSE rq.accepted
        con == IF ~wrote \/ (rt = "src" /\ ~logged)
               THEN Append(rq.conflicts, m.path) ELSE rq.conflicts
    IN [rq EXCEPT !.sent = Append(@, [path |-> m.path, wrote |-> wrote]),
                  !.accepted = acc,
                  !.conflicts = con,
                  !.logFailed = IF rt = "src" /\ wrote /\ ~logged THEN @ \cup {m.path} ELSE @,
                  !.phase = PhaseAfter(rt, rq, Len(rq.sent) + 1, Len(acc))]

\* ------------------------------------------------------------- server: GET
\* Mutant: the query without since does not filter on deletedAt.
PullQueryAll(rows, since) ==
    IF since # NoSince
    THEN {p \in Paths : rows[p].exists /\ rows[p].updatedAt > since}
    ELSE {p \in Paths : rows[p].exists}

\* The rows GET /api/sync selects: without since the rows that are not
\* tombstoned, with since the rows with updatedAt > since.
PullQuery(rows, since) ==
    IF since # NoSince
    THEN {p \in Paths : rows[p].exists /\ rows[p].updatedAt > since}
    ELSE {p \in Paths : rows[p].exists /\ rows[p].deletedAt = NoTime}

\* ------------------------------------------------------------ Go callers
\* What the caller reports for a push of rq.n notes: err is a network or
\* protocol error of client.Push (no reply, or a status other than 200).
\* pushNotes compares len(resp.Accepted) with len(notes); the watch loops
\* look at err only.
Reported(caller, rq, delivered) ==
    LET err == ~delivered \/ rq.status # 200
        nAcc == IF err THEN 0 ELSE Len(rq.accepted)
    IN [caller |-> caller, sent |-> rq.n, accepted |-> nAcc, err |-> err,
        outcome |-> IF err THEN "failed"
                    ELSE IF caller = "pushNotes" /\ nAcc # rq.n THEN "failed"
                    ELSE "synced"]

\* ---------------------------------------------------------- change detector
\* strings.HasSuffix(event.Name, ".md")
HasSuffixMd(name) == name \in {"a.md", "b.md"}

\* The event is within 500 ms of the last one let through for its name.
Debounced(stamp, t) == stamp # NoStamp /\ t - stamp < DebounceWindow

\* Mutant: every event of a note restarts the window of its name.
AfterEventRestarts(deb, name, t) ==
    IF HasSuffixMd(name) THEN [deb EXCEPT ![name] = t] ELSE deb

\* The debounce map after the detector read an event for name at time t:
\* the event is stamped when it is for a note and is not debounced.
AfterEvent(deb, name, t) ==
    IF HasSuffixMd(name) /\ ~Debounced(deb[name], t)
    THEN [deb EXCEPT ![name] = t]
    ELSE deb

\* The FileChange built for a write event (the name relative to the
\* watched directory, the content read from the file).
FileChange(name, content) ==
    [path |-> name, content |-> content, action |-> "update"]

\* ------------------------------------------------------------ browser store
\* id.startsWith('temp-')
IsTemp(id) == id = "temp-1"
\* The id of the row the server creates for the note added as id.
ServerIdOf(id) == IF IsTemp(id) THEN "s1" ELSE id
\* The path of a note: the stored one of n1, the one addNote generates.
PathOf(id) == IF id = "n1" THEN "a.md" ELSE "b.md"
IdOfPath(p) == IF p = "a.md" THEN "n1" ELSE "s1"

\* POST /api/notes: .values({title, content: content || '', path,
\* checksum: checksum(noteContent)})
CreateValues(title, content, t) ==
    [exists |-> TRUE,
     title |-> title,
     content |-> OrDefault(content, ""),
     checksum |-> CalculateChecksum(OrDefault(content, "")),
     updatedAt |-> t,
     deletedAt |-> NoTime]

\* The server can apply the mutation: a create needs a title and a free
\* path, an update or delete a row with the id.
CanApply(rows, e) ==
    IF e.type = "create"
    THEN e.payload.title # "" /\ ~rows[PathOf(e.id)].exists
    ELSE ~IsTemp(e.id) /\ rows[PathOf(e.id)].exists

\* The notes table after POST /api/notes, PATCH or DELETE /api/notes/[id].
Serve(rows, e, t) ==
    [rows EXCEPT ![PathOf(e.id)] =
        IF e.type = "create" THEN CreateValues(e.payload.title, e.payload.content, t)
        ELSE IF e.type = "update"
             THEN [@ EXCEPT !.title = e.payload.title,
                            !.content = e.payload.content,
                            !.checksum = CalculateChecksum(OrDefault(e.payload.content, "")),
                            !.updatedAt = t]
        ELSE [@ EXCEPT !.deletedAt = t]]

\* Map.prototype.set: the value of a queued key is replaced in place, a new
\* key goes to the end.
MapSet(q, e) ==
    IF \E i \in 1..Len(q) : q[i].key = e.key
    THEN [i \in 1..Len(q) |-> IF q[i].key = e.key THEN e ELSE q[i]]
    ELSE Append(q, e)

\* Map.prototype.delete
MapDelete(q, key) == SelectSeq(q, LAMBDA x : x.key # key)

\* The mutation as it is sent: the webapp copy's create reads the note's
\* current title and content when it runs, the other closures carry what
\* they captured.
Resolve(rt, list, e) ==
    IF rt = "webapp" /\ e.type = "create"
    THEN LET n == CHOOSE x \in list : x.id = e.id
         IN [e EXCEPT !.payload = [title |-> n.title, content |-> n.content]]
    ELSE e

RECURSIVE WorkerLoop(_, _, _, _)
\* Mutant: the worker takes an update off the queue without calling its
\* sync function.
WorkerLoopDropsUpdates(rt, list, q, fl) ==
    IF q = <<>> THEN [queue |-> q, inflight |-> fl, processing |-> FALSE]
    ELSE IF \/ Head(q).type = "update"
            \/ rt = "webapp" /\ Head(q).type = "create" /\ ~\E x \in list : x.id = Head(q).id
         THEN WorkerLoop(rt, list, Tail(q), fl)
    ELSE [queue |-> Tail(q), inflight |-> fl \cup {Resolve(rt, list, Head(q))},
          processing |-> TRUE]

\* while (syncQueueRef.current.size > 0): the worker takes the first
\* mutation off the queue and awaits its sync function, which starts the
\* network call (the webapp copy's create returns at once when its note is
\* no longer in the list); with the queue empty it clears processingRef.
WorkerLoop(rt, list, q, fl) ==
    IF q = <<>> THEN [queue |-> q, inflight |-> fl, processing |-> FALSE]
    ELSE IF rt = "webapp" /\ Head(q).type = "create" /\ ~\E x \in list : x.id = Head(q).id
         THEN WorkerLoop(rt, list, Tail(q), fl)
    ELSE [queue |-> Tail(q), inflight |-> fl \cup {Resolve(rt, list, Head(q))},
          processing |-> TRUE]

\* Mutant: processQueue does not look at processingRef.
ProcessQueueUnguarded(rt, list, q, fl, proc) ==
    IF q = <<>>
    THEN [queue |-> q, inflight |-> fl, processing |-> proc]
    ELSE WorkerLoop(rt, list, q, fl)

\* processQueue: returns when a worker is running or the queue is empty,
\* else becomes the worker.
ProcessQueue(rt, list, q, fl, proc) ==
    IF proc \/ q = <<>>
    THEN [queue |-> q, inflight |-> fl, processing |-> proc]
    ELSE WorkerLoop(rt, list, q, fl)

\* The list after the server confirmed the mutation: a created note is
\* replaced by the server's note (the webapp copy keeps _tempId), an updated
\* one is marked synced.
Confirmed(rt, list, e) ==
    LET serverNote == [id |-> ServerIdOf(e.id), title |-> e.payload.title,
                       content |-> OrDefault(e.payload.content, ""),
                       status |-> "synced", tempId |-> ""]
    IN IF e.type = "create"
       THEN {IF rt = "src" /\ n.tempId = e.id THEN serverNote
             ELSE IF rt = "webapp" /\ n.id = e.id THEN [serverNote EXCEPT !.tempId = n.tempId]
             ELSE n : n \in list}
       ELSE IF e.type = "update"
       THEN {IF n.id = e.id THEN [n EXCEPT !.status = "synced"] ELSE n : n \in list}
       ELSE list

\* The catch block of the worker: the notes whose id or _tempId equals the
\* key of the queue entry get the status error.
MarkError(list, e) ==
    {IF n.id = e.key \/ n.tempId = e.key THEN [n EXCEPT !.status = "error"] ELSE n : n \in list}

\* The notes a page load gets from the server: the rows not deleted.
ServerNotes(rows) ==
    {[id |-> IdOfPath(p), title |-> rows[p].title, content |-> rows[p].content,
      status |-> "synced", tempId |-> ""] :
        p \in {q \in Paths : rows[q].exists /\ rows[q].deletedAt = NoTime}}

\* The webapp copy's effect on initialNotes: nothing when they are empty,
\* else the local notes that are pending or syncing, and the server's notes
\* whose id is not the _tempId (or, without one, the id) of any of those.
Merge(current, initialNotes) ==
    IF initialNotes = {} THEN current
    ELSE LET pendingNotes == {n \in current : n.status \in {"pending", "syncing"}}
             pendingIds == {IF n.tempId # "" THEN n.tempId ELSE n.id : n \in pendingNotes}
         IN pendingNotes \cup {n \in initialNotes : n.id \notin pendingIds}

\* NotesProvider mounting with initialNotes and the cached notes: the src
\* copy shows initialNotes; the webapp copy shows them, or the cached notes
\* when there are none, runs the merge effect and caches initialNotes when
\* there are some.
Mount(rt, initialNotes, cached) ==
    LET startingNotes == IF rt = "webapp" /\ initialNotes = {} THEN cached ELSE initialNotes
        shown == {[n EXCEPT !.status = "synced"] : n \in startingNotes}
    IN [notes |-> IF rt = "webapp" THEN Merge(shown, initialNotes) ELSE shown,
        cache |-> IF rt = "webapp" /\ initialNotes # {} THEN initialNotes ELSE cached]

\* ---------------------------------------------------------------- history
\* The record kept of a create/update mutation whose write completed;
\* repeat: it carries the same title, content and checksum as the one
\* applied to the path before it.
Applied(prev, m) ==
    [action |-> "upsert", title |-> m.title, content |-> m.content, checksum |-> m.checksum,
     repeat |-> /\ prev # NoMut
                /\ prev.title = m.title
                /\ prev.content = m.content
                /\ prev.checksum = m.checksum]

\* ---------------------------------------------------------------- notes-cli
\* filepath.Walk visits the names of the directory in lexical order.
WalkOrder == <<"a.md", "b.md", "n.txt">>

RECURSIVE ReadFrom(_, _, _)
\* The walk of ReadAllNotes over names: a file that is no .md file (or does
\* not exist) is passed over, a failed os.ReadFile ends the walk with the
\* error, any other note is appended as an "update".
ReadFrom(names, d, unreadable) ==
    IF names = <<>> THEN [notes |-> <<>>, err |-> FALSE]
    ELSE IF ~HasSuffixMd(Head(names)) \/ d[Head(names)] = NoFile
         THEN ReadFrom(Tail(names), d, unreadable)
    ELSE IF Head(names) \in unreadable THEN [notes |-> <<>>, err |-> TRUE]
    ELSE LET rest == ReadFrom(Tail(names), d, unreadable)
         IN [notes |-> <<FileChange(Head(names), d[Head(names)])>> \o rest.notes,
             err |-> rest.err]

\* Mutant: the walk takes every file, whatever its suffix.
ReadAllNotesEveryFile(d, unreadable) ==
    [notes |-> [i \in 1..Len(WalkOrder) |->
                  FileChange(WalkOrder[i],
                             IF WalkOrder[i] \in DOMAIN d THEN d[WalkOrder[i]] ELSE "")],
     err |-> FALSE]

\* Watcher.ReadAllNotes on the directory d; unreadable: the files whose
\* os.ReadFile fails. err: the error it returns (pushNotes then stops).
ReadAllNotes(d, unreadable) == ReadFrom(WalkOrder, d, unreadable)

\* The server's state after one change of a batch, every statement
\* succeeding.
ServeOne(rt, st, m, t) ==
    [notes |-> WriteNote(rt, st.notes, m, t),
     last |-> [st.last EXCEPT ![m.path] =
                  IF st.notes[m.path].exists THEN "overwrite" ELSE "insert"],
     lastUpsert |-> [st.lastUpsert EXCEPT ![m.path] = Applied(@, m)],
     syncLog |-> st.syncLog + 1]

RECURSIVE ServeBatch(_, _, _, _)
\* The server's state after the changes of a batch, in their order.
ServeBatch(rt, st, batch, t) ==
    IF batch = <<>> THEN st
    ELSE ServeBatch(rt, ServeOne(rt, st, Head(batch), t), Tail(batch), t)

\* The orders in which the rows of a query without ORDER BY may come.
Orders(ps) ==
    {sq \in UNION {[1..n -> ps] : n \in 0..Cardinality(ps)} :
        /\ Len(sq) = Cardinality(ps)
        /\ \A i, j \in 1..Len(sq) : sq[i] = sq[j] => i = j}
\* The orders of every set of notes.
AllOrders == UNION {Orders(ps) : ps \in SUBSET Paths}

RECURSIVE ApplyPull(_, _, _, _, _)
\* Mutant: applying a pull removes the note files the response does not
\* name.
ApplyPullMirrors(d, rows, ord, failing, fatal) ==
    [disk |-> [p \in Paths |-> IF \E i \in 1..Len(ord) : ord[i] = p /\ p \notin failing
                               THEN rows[p].content ELSE NoFile],
     err |-> FALSE]

\* The loop  for _, n := range resp.Changes  writing each returned note to
\* its file; failing: the notes whose os.MkdirAll or os.WriteFile fails.
\* fatal: the loop returns the error (pullNotes); else it continues
\* (browseWithSync).
ApplyPull(d, rows, ord, failing, fatal) ==
    IF ord = <<>> THEN [disk |-> d, err |-> FALSE]
    ELSE IF Head(ord) \in failing
         THEN IF fatal THEN [disk |-> d, err |-> TRUE]
              ELSE ApplyPull(d, rows, Tail(ord), failing, fatal)
    ELSE ApplyPull([d EXCEPT ![Head(ord)] = rows[Head(ord)].content],
                   rows, Tail(ord), failing, fatal)

\* Mutant: main goes on after a failed Authenticate.
AfterAuthIgnoresError(ok) == "body"

\* main after apiClient.Authenticate():  if err != nil { log.Fatalf(...) }.
AfterAuth(ok) == IF ok THEN "body" ELSE "done"

\* Mutant: the loop does not wait for its push (go apiClient.Push(notes)).
PushingNever(fl) == FALSE

\* The watch loop is inside apiClient.Push, a synchronous call.
Pushing(fl) == fl # <<>>

\* Mutant: a push that failed stays in flight: it is sent again.
AfterPushRetries(fl, net) == IF net = "ok" THEN Tail(fl) ELSE fl

\* The pushes in flight once client.Push has returned, with or without an
\* error: its single httpClient.Do is over.
AfterPush(fl, net) == Tail(fl)

\* Mutant: the detector observes the directory from the start of the run.
ObservingFromStart(pc) == TRUE

\* The detector observes the directory: watcher.New has added its watches,
\* which backgroundSync and watchBackground do right before their loop.
Observing(pc) == pc = "watch"

\* The function the watch loop of a mode runs in.
LoopOf(mode) == IF mode = "watch" THEN "watchBackground" ELSE "backgroundSync"

\* -------------------------------------------------------------- terminal UI
\* The strings of the browse view are sequences of ASCII code points.
\* strings.ToLower
ToLower(s) == [i \in 1..Len(s) |-> IF s[i] \in 65..90 THEN s[i] + 32 ELSE s[i]]

\* strings.Contains
Contains(s, substr) ==
    \E i \in 0..(Len(s) - Len(substr)) : SubSeq(s, i + 1, i + Len(substr)) = substr

RECURSIVE MatchLoop(_, _, _, _)
\* The loop of Match from the i-th rune of target on, queryIdx query bytes
\* being matched so far.
MatchLoop(query, target, i, queryIdx) ==
    IF i > Len(target) THEN queryIdx = Len(query)
    ELSE LET idx == IF queryIdx < Len(query) /\ query[queryIdx + 1] = target[i]
                    THEN queryIdx + 1 ELSE queryIdx
         IN IF idx = Len(query) THEN TRUE ELSE MatchLoop(query, target, i + 1, idx)

\* search.Match: the lower-cased query is a subsequence of the lower-cased
\* target; the empty query matches everything.
Match(query, target) ==
    IF ToLower(query) = <<>> THEN TRUE
    ELSE MatchLoop(ToLower(query), ToLower(target), 1, 0)

RECURSIVE ScoreLoop(_, _, _, _, _, _)
\* The loop of Score at index i (from 0) of target.
ScoreLoop(query, target, i, queryIdx, lastMatchPos, score) ==
    IF i >= Len(target) THEN [score |-> score, queryIdx |-> queryIdx]
    ELSE IF queryIdx < Len(query) /\ query[queryIdx + 1] = target[i + 1]
         THEN ScoreLoop(query, target, i + 1, queryIdx + 1, i,
                        score + (IF lastMatchPos = i - 1 THEN 10 ELSE 5))
    ELSE ScoreLoop(query, target, i + 1, queryIdx, lastMatchPos, score)

\* search.Score
Score(query, target) ==
    LET q == ToLower(query)
        t == ToLower(target)
        r == ScoreLoop(q, t, 0, 0, -1, 0)
    IN IF q = <<>> THEN 0
       ELSE IF Contains(t, q) THEN 1000
       ELSE r.score + (IF r.queryIdx > 0 /\ t # <<>> /\ t[1] = q[1] THEN 20 ELSE 0)

\* search.ExtractSnippet for a content without white space that is shorter
\* than 30 bytes: the snippet is the whole content.
ExtractSnippet(query, content) ==
    IF query = <<>> \/ content = <<>> THEN <<>>
    ELSE IF ~Contains(ToLower(content), ToLower(query)) THEN <<>>
    ELSE content

\* The search.NoteMatch updateFilter appends for a note that matches.
NoteMatch(query, note) ==
    LET titleMatch == Match(query, note.Title \o <<32>> \o note.Path)
        contentMatch == Match(query, note.Content)
        titleScore == Score(query, note.Title \o <<32>> \o note.Path)
        contentScore == Score(query, note.Content)
        score == IF contentScore > titleScore THEN contentScore ELSE titleScore
    IN [Path |-> note.Path,
        Title |-> note.Title,
        Score |-> IF titleMatch THEN score + 500 ELSE score,
        ModTime |-> note.ModTime,
        MatchSnippet |-> IF ~titleMatch /\ contentMatch /\ query # <<>>
                         THEN ExtractSnippet(query, note.Content) ELSE <<>>,
        MatchInTitle |-> titleMatch]

\* ByScore.Less and ByModTime.Less
Less(byScore, a, b) == IF byScore THEN a.Score > b.Score ELSE a.ModTime > b.ModTime

RECURSIVE InsertionSort(_, _)
\* sort.Sort on a list of at most 12 elements is an insertion sort: each
\* element moves left past the elements it is less than.
InsertionSort(byScore, data) ==
    IF Len(data) <= 1 THEN data
    ELSE LET front == InsertionSort(byScore, SubSeq(data, 1, Len(data) - 1))
             x == data[Len(data)]
             before == {j \in 0..Len(front) :
                          \A k \in (j + 1)..Len(front) : Less(byScore, x, front[k])}
             at == CHOOSE j \in before : \A k \in before : j <= k
         IN SubSeq(front, 1, at) \o <<x>> \o SubSeq(front, at + 1, Len(front))

\* BrowseModel.updateFilter: the notes matching the query, sorted by
\* modification time when the query is empty and by score else; a cursor at
\* or past the end goes back to 0.
UpdateFilter(list, query, cursor) ==
    LET matching == SelectSeq(list, LAMBDA n :
                        Match(query, n.Title \o <<32>> \o n.Path) \/ Match(query, n.Content))
        filtered == InsertionSort(query # <<>>,
                        [i \in 1..Len(matching) |-> NoteMatch(query, matching[i])])
    IN [filteredNotes |-> filtered,
        cursorPosition |-> IF cursor >= Len(filtered) THEN 0 ELSE cursor]

\* GetSelectedNote returned nil.
Nil == [nil |-> TRUE]
\* The index expression of GetSelectedNote panicked: the process is over.
Panicked == [panic |-> "index out of range"]

\* BrowseModel.GetSelectedNote
GetSelectedNote(filtered, cursor) ==
    IF Len(filtered) = 0 THEN Nil
    ELSE IF cursor >= Len(filtered) THEN Nil
    ELSE IF cursor \in 0..(Len(filtered) - 1) THEN filtered[cursor + 1]
    ELSE Panicked

\* The notes loadNotes finds: path and title, no content, no time.
NoteItems ==
    <<[Path |-> <<97, 46, 109, 100>>, Title |-> <<65, 98>>, Content |-> <<>>, ModTime |-> 0],
      [Path |-> <<98, 46, 109, 100>>, Title |-> <<66>>, Content |-> <<>>, ModTime |-> 0]>>
\* The lists loadNotes can send, in the order of filepath.Walk.
NoteLists == {<<>>, <<NoteItems[1]>>, <<NoteItems[2]>>, NoteItems}
\* The runes typed: a, B, m, z and DEL.
Runes == {97, 66, 109, 122, 127}
\* The messages of the browse view: keys by their msg.String(), a key
\* carrying one rune, and the terminal's size.
Msgs ==
    {[type |-> "KeyMsg", key |-> k, Runes |-> <<>>] :
        k \in {"up", "down", "home", "end", "backspace", "ctrl+u", "tab"}}
    \cup {[type |-> "KeyMsg", key |-> "rune", Runes |-> <<r>>] : r \in Runes}
    \cup {[type |-> "WindowSizeMsg", key |-> "", Runes |-> <<>>]}

\* NewBrowseModel
NewBrowseModel ==
    /\ browseNotes = <<>>
    /\ filteredNotes = <<>>
    /\ searchQuery = <<>>
    /\ cursorPosition = 0
    /\ width = 0
    /\ height = 0
    /\ selected = Nil

\* ---------------------------------------------------------------- actions
\* The server's tables without the notes, and the Go tool before any event.
InitRest ==
    /\ route \in Routes
    /\ now = 1
    /\ syncLog = 0
    /\ reqs = [r \in Requests |-> Idle]
    /\ pushes = 0
    /\ last = [p \in Paths |-> "none"]
    /\ lastUpsert = [p \in Paths |-> NoMut]
    /\ pulled = NoPull
    /\ report = NoReport
    /\ clock = 0
    /\ disk = [p \in Paths |-> ""]
    /\ nEvents = 0
    /\ debounce = [n \in Names |-> NoStamp]
    /\ changes = NoChange
    /\ loop = NoChange
    /\ emits = [p \in Paths |-> <<>>]
    /\ example = 0
    /\ clean = [p \in Paths |-> TRUE]
    /\ allSynced = TRUE
    /\ pulling = Idle
    /\ seen = [p \in Paths |-> NoRow]
    /\ shutdown = "open"
    /\ run = NoRun
    /\ nRuns = 0
    /\ flight = <<>>
    /\ order = <<>>
    /\ NewBrowseModel

\* The browser store right after NotesProvider mounted with initialNotes.
InitStore(initialNotes) ==
    /\ storeNotes = Mount(route, initialNotes, {}).notes
    /\ syncQueue = <<>>
    /\ processing = FALSE
    /\ inflight = {}
    /\ debounceTimer = "off"
    /\ added = FALSE
    /\ nOps = 0
    /\ edited = [i \in Ids |-> "never"]
    /\ lastEdit = [i \in Ids |-> NoEntry]
    /\ burstCalls = [i \in Ids |-> 0]
    /\ dirty = {}
    /\ unconfirmedDeleted = {}
    /\ cache = Mount(route, initialNotes, {}).cache
    /\ served = {}

\* One note on the server, and the page loaded with it.
InitLoaded ==
    /\ InitRest
    /\ notes = [p \in Paths |-> IF p = "a.md" THEN CreateValues("T", "", 1) ELSE NoRow]
    /\ InitStore(ServerNotes(notes))

\* Empty tables, no page loaded.
Init ==
    /\ InitRest
    /\ notes = [p \in Paths |-> NoRow]
    /\ InitStore({})

\* Time passes.
Tick ==
    /\ now < MaxClock
    /\ now' = now + 1
    /\ UNCHANGED <<route, notes, syncLog, reqs, pushes, last, lastUpsert, pulled, report>>
    /\ UNCHANGED clientVars

\* A caller sends POST /api/sync with n changes; the handler parses the body.
\* The Go client always names itself "notes-cli"; the watch loops push one
\* note at a time, pushNotes pushes every file of the directory (a batch
\* holds at most one change per path, so n is at most the number of paths).
StartPush(r, caller, clientId, n) ==
    /\ reqs[r] = Idle
    /\ pushes < MaxPushes
    /\ n <= Cardinality(Paths)
    /\ caller \in GoCallers => clientId = "notes-cli"
    /\ caller \in {"watchBackground", "backgroundSync"} => n = 1
    /\ reqs' = [reqs EXCEPT ![r] =
                  [NewRequest(caller, clientId, n) EXCEPT
                     !.phase = IF @ = "loop" THEN PhaseAfter(route, NewRequest(caller, clientId, n), 0, 0)
                               ELSE @]]
    /\ pushes' = pushes + 1
    /\ UNCHANGED <<route, now, notes, syncLog, last, lastUpsert, pulled, report>>
    /\ UNCHANGED clientVars

\* The handler processes its next change m (the paths of a batch are
\* distinct, as in every batch the repository's clients build).
Item(r, m, wrote, logged) ==
    /\ reqs[r].phase = "loop"
    /\ m \in MutationsOf(reqs[r].caller)
    /\ m.path \notin {reqs[r].sent[i].path : i \in 1..Len(reqs[r].sent)}
    /\ (route = "webapp" \/ ~wrote) => logged
    /\ notes' = IF wrote THEN WriteNote(route, notes, m, now) ELSE notes
    /\ last' = IF wrote
               THEN [last EXCEPT ![m.path] =
                       IF m.action = "delete" THEN "delete"
                       ELSE IF notes[m.path].exists THEN "overwrite" ELSE "insert"]
               ELSE last
    /\ lastUpsert' = IF wrote /\ m.action # "delete"
                     THEN [lastUpsert EXCEPT ![m.path] = Applied(lastUpsert[m.path], m)]
                     ELSE lastUpsert
    /\ syncLog' = IF route = "src" /\ wrote /\ logged
                  THEN syncLog + 1
                  ELSE syncLog
    /\ reqs' = [reqs EXCEPT ![r] = AfterItem(route, reqs[r], m, wrote, logged)]
    /\ UNCHANGED <<route, now, pushes, pulled, report>>
    /\ UNCHANGED clientVars

\* The webapp copy's batched audit insert after the loop; its failure is
\* caught and only logged to the console.
LogBatch(r, logged) ==
    /\ reqs[r].phase = "log"
    /\ syncLog' = IF logged
                  THEN syncLog + Len(reqs[r].accepted)
                  ELSE syncLog
    /\ reqs' = [reqs EXCEPT ![r] =
                  [@ EXCEPT !.phase = "done",
                            !.logFailed = IF logged THEN @ ELSE Range(reqs[r].accepted)]]
    /\ UNCHANGED <<route, now, notes, pushes, last, lastUpsert, pulled, report>>
    /\ UNCHANGED clientVars

\* The handler answers; a Go caller reports the outcome of its push.
Reply(r, delivered) ==
    /\ reqs[r].phase = "done"
    /\ report' = IF reqs[r].caller \in GoCallers
                 THEN Reported(reqs[r].caller, reqs[r], delivered)
                 ELSE report
    /\ reqs' = [reqs EXCEPT ![r] = Idle]
    /\ UNCHANGED <<route, now, notes, syncLog, pushes, last, lastUpsert, pulled>>
    /\ UNCHANGED clientVars

\* GET /api/sync[?since=...]
Pull(since) ==
    /\ pulled' = [since |-> since,
                  changes |-> [p \in PullQuery(notes, since) |-> notes[p]],
                  timestamp |-> now]
    /\ UNCHANGED <<route, now, notes, syncLog, reqs, pushes, last, lastUpsert, report>>
    /\ UNCHANGED clientVars

\* GET /api/sync[?since=...] up to  const changedNotes = await query.
GetQuery(since) ==
    /\ pulling = Idle
    /\ pulling' = [phase |-> "reply", since |-> since,
                   changes |-> [p \in PullQuery(notes, since) |-> notes[p]]]
    /\ UNCHANGED <<seen, shutdown, run, nRuns, flight, order>>
    /\ UNCHANGED uiVars
    /\ UNCHANGED <<serverVars, watchVars, storeVars>>

\* The GET handler answers: the rows it selected, and as timestamp the time
\* it reads now.
GetReply ==
    /\ pulling # Idle
    /\ pulled' = [since |-> pulling.since, changes |-> pulling.changes, timestamp |-> now]
    /\ pulling' = Idle
    /\ seen' = [p \in Paths |-> IF p \in DOMAIN pulling.changes THEN pulling.changes[p]
                                ELSE seen[p]]
    /\ UNCHANGED <<shutdown, run, nRuns, flight, order>>
    /\ UNCHANGED uiVars
    /\ UNCHANGED <<route, now, notes, syncLog, reqs, pushes, last, lastUpsert, report>>
    /\ UNCHANGED <<watchVars, storeVars>>

\* A file of the watched directory is written (or otherwise touched) and
\* the detector's goroutine, not blocked in a send, reads the raw event: it
\* skips names that are no notes and debounced events, stamps the name, and
\* for a write reads the file and sends the change on the unbuffered
\* channel: the watch loop takes it at once when it is receiving, else the
\* goroutine blocks. readOk: os.ReadFile succeeded.
Detect(name, op, c, readOk) ==
    /\ shutdown = "open"
    /\ nEvents < MaxEvents
    /\ changes = NoChange
    /\ (op # "WRITE" \/ name \notin Paths) => c = ""
    /\ LET pass == HasSuffixMd(name) /\ ~Debounced(debounce[name], clock)
           emit == pass /\ op = "WRITE" /\ readOk
       IN /\ ~(pass /\ op = "WRITE") => readOk
          /\ disk' = IF op = "WRITE" /\ name \in Paths THEN [disk EXCEPT ![name] = c]
                     ELSE IF op = "REMOVE" /\ name \in Paths THEN [disk EXCEPT ![name] = NoFile]
                     ELSE disk
          /\ order' = IF emit /\ run.pc = "watch"
                      THEN Append(order, FileChange(name, disk'[name]))
                      ELSE order
          /\ debounce' = AfterEvent(debounce, name, clock)
          /\ changes' = IF emit /\ loop # NoChange THEN FileChange(name, disk'[name]) ELSE NoChange
          /\ loop' = IF emit /\ loop = NoChange THEN FileChange(name, disk'[name]) ELSE loop
          /\ emits' = IF emit THEN [emits EXCEPT ![name] = Append(@, clock)] ELSE emits
          /\ clean' = IF HasSuffixMd(name)
                      THEN [clean EXCEPT ![name] = @ /\ op = "WRITE" /\ readOk]
                      ELSE clean
          /\ example' = IF name # "a.md" THEN example
                        ELSE IF /\ example \in 0..(Len(ExampleTimes) - 1)
                                /\ clock = ExampleTimes[example + 1]
                                /\ op = "WRITE" /\ readOk
                             THEN example + 1
                             ELSE -1
    /\ nEvents' = nEvents + 1
    /\ UNCHANGED <<clock, allSynced>>
    /\ UNCHANGED <<pulling, seen, shutdown, run, nRuns, flight>>
    /\ UNCHANGED uiVars
    /\ UNCHANGED <<serverVars, storeVars>>

\* The watch loop processes the change it received and pushes it as a batch
\* of one; the server handles the request (wrote: its note write completed)
\* and the loop reports the outcome (delivered: the reply arrived), sleeps
\* 100 ms and receives again, taking the change the detector is blocked
\* sending, if any.
WatchPush(caller, wrote, delivered) ==
    /\ loop # NoChange
    /\ LET m == ProcessNote(loop.path, loop.content, loop.action)
           rq == AfterItem(route, NewRequest(caller, "notes-cli", 1), m, wrote, TRUE)
       IN /\ notes' = IF wrote THEN WriteNote(route, notes, m, now) ELSE notes
          /\ last' = IF wrote
                     THEN [last EXCEPT ![m.path] =
                             IF notes[m.path].exists THEN "overwrite" ELSE "insert"]
                     ELSE last
          /\ lastUpsert' = IF wrote
                           THEN [lastUpsert EXCEPT ![m.path] = Applied(lastUpsert[m.path], m)]
                           ELSE lastUpsert
          /\ syncLog' = IF wrote THEN syncLog + 1 ELSE syncLog
          /\ report' = Reported(caller, rq, delivered)
    /\ allSynced' = (allSynced /\ wrote /\ delivered)
    /\ loop' = changes
    /\ changes' = NoChange
    /\ UNCHANGED <<route, now, reqs, pushes, pulled>>
    /\ UNCHANGED <<clock, disk, nEvents, debounce, emits, example, clean>>
    /\ UNCHANGED <<storeVars, cliVars>>

\* Time passes on the workstation, up to the last event of a behaviour.
WTick ==
    /\ clock < MaxTime
    /\ nEvents < MaxEvents
    /\ clock' = clock + 1
    /\ UNCHANGED <<disk, nEvents, debounce, changes, loop, emits, example, clean, allSynced>>
    /\ UNCHANGED <<serverVars, storeVars, cliVars>>

\* Watcher.Close: closes the fsnotify watcher, which closes its Events and
\* Errors channels.
Close ==
    /\ shutdown = "open"
    /\ shutdown' = "closing"
    /\ UNCHANGED <<pulling, seen, run, nRuns, flight, order>>
    /\ UNCHANGED uiVars
    /\ UNCHANGED <<serverVars, watchVars, storeVars>>

\* The goroutine of Watch returns without running its deferred call: the
\* channel stays as it is.
ReturnKeepsOpen(sd) == sd

\* The goroutine of Watch returns:  defer close(changes)  closes the channel.
Return(sd) == "closed"

\* The goroutine of Watch, not blocked in a send, finds Events (or Errors)
\* closed in its select and returns.
GoroutineExit ==
    /\ shutdown = "closing"
    /\ changes = NoChange
    /\ shutdown' = Return(shutdown)
    /\ UNCHANGED <<pulling, seen, run, nRuns, flight, order>>
    /\ UNCHANGED uiVars
    /\ UNCHANGED <<serverVars, watchVars, storeVars>>

\* The loop  for change := range changes  is receiving and finds the channel
\* closed: the loop ends and its function returns (nil in watchBackground).
LoopExit ==
    /\ shutdown = "closed"
    /\ loop = NoChange
    /\ shutdown' = "exited"
    /\ UNCHANGED <<pulling, seen, run, nRuns, flight, order>>
    /\ UNCHANGED uiVars
    /\ UNCHANGED <<serverVars, watchVars, storeVars>>

\* -------------------------------------------------------- notes-cli actions
\* notes-cli is started in a mode. -init writes the example configuration
\* and returns before anything else.
Start(mode) ==
    /\ run.pc \in {"idle", "done"}
    /\ nRuns < MaxRuns
    /\ nRuns' = nRuns + 1
    /\ run' = [mode |-> mode, pc |-> IF mode = "init" THEN "done" ELSE "config",
               cfg |-> FALSE, auth |-> FALSE, err |-> FALSE, restored |-> {}]
    /\ UNCHANGED <<pulling, seen, shutdown, flight, order>>
    /\ UNCHANGED uiVars
    /\ UNCHANGED <<serverVars, watchVars, storeVars>>

\* cfg, err := config.Load();  if err != nil { log.Fatalf(...) }
LoadConfig(ok) ==
    /\ run.pc = "config"
    /\ run' = [run EXCEPT !.cfg = ok, !.pc = IF ok THEN "auth" ELSE "done", !.err = ~ok]
    /\ UNCHANGED <<pulling, seen, shutdown, nRuns, flight, order>>
    /\ UNCHANGED uiVars
    /\ UNCHANGED <<serverVars, watchVars, storeVars>>

\* apiClient.Authenticate(): ok when the server answered 200 with the
\* notes-auth cookie.
Authenticate(ok) ==
    /\ run.pc = "auth"
    /\ run' = [run EXCEPT !.auth = ok, !.pc = AfterAuth(ok), !.err = ~ok]
    /\ UNCHANGED <<pulling, seen, shutdown, nRuns, flight, order>>
    /\ UNCHANGED uiVars
    /\ UNCHANGED <<serverVars, watchVars, storeVars>>

\* pushNotes: reads every note, pushes them as one batch and ends.
RunPush(unreadable, net) ==
    /\ run.mode = "push" /\ run.pc = "body"
    /\ LET r == ReadAllNotes(disk, unreadable)
           batch == [i \in 1..Len(r.notes) |->
                        ProcessNote(r.notes[i].path, r.notes[i].content, "update")]
           st == IF ~r.err /\ net # "down"
                 THEN ServeBatch(route, [notes |-> notes, last |-> last,
                                         lastUpsert |-> lastUpsert, syncLog |-> syncLog],
                                 batch, now)
                 ELSE [notes |-> notes, last |-> last, lastUpsert |-> lastUpsert,
                       syncLog |-> syncLog]
           rq == [NewRequest("pushNotes", "notes-cli", Len(batch)) EXCEPT
                     !.accepted = [i \in 1..Len(batch) |-> batch[i].path]]
       IN /\ notes' = st.notes
          /\ last' = st.last
          /\ lastUpsert' = st.lastUpsert
          /\ syncLog' = st.syncLog
          /\ report' = IF r.err THEN report ELSE Reported("pushNotes", rq, net = "ok")
          /\ run' = [run EXCEPT !.pc = "done", !.err = r.err \/ net # "ok"]
    /\ UNCHANGED <<route, now, reqs, pushes, pulled>>
    /\ UNCHANGED <<pulling, seen, shutdown, nRuns, flight, order>>
    /\ UNCHANGED uiVars
    /\ UNCHANGED <<watchVars, storeVars>>

\* pullNotes: client.Pull (GET /api/sync without since), then every
\* returned note is written to its file, in the order ord of the response.
RunPull(net, failing, ord) ==
    /\ run.mode = "pull" /\ run.pc = "body"
    /\ ord \in Orders(IF net = "ok" THEN PullQuery(notes, NoSince) ELSE {})
    /\ failing \subseteq PullQuery(notes, NoSince)
    /\ net # "ok" => failing = {}
    /\ LET r == ApplyPull(disk, notes, ord, failing, TRUE)
       IN /\ disk' = r.disk
          /\ run' = [run EXCEPT !.pc = "done", !.err = r.err \/ net # "ok",
                                !.restored = {p \in Paths : disk[p] = NoFile /\ r.disk[p] # NoFile}]
    /\ pulled' = IF net = "down" THEN pulled
                 ELSE [since |-> NoSince, timestamp |-> now,
                       changes |-> [p \in PullQuery(notes, NoSince) |-> notes[p]]]
    /\ UNCHANGED <<route, now, notes, syncLog, reqs, pushes, last, lastUpsert, report>>
    /\ UNCHANGED <<clock, nEvents, debounce, changes, loop, emits, example, clean, allSynced>>
    /\ UNCHANGED <<pulling, seen, shutdown, nRuns, flight, order>>
    /\ UNCHANGED uiVars
    /\ UNCHANGED storeVars

\* The goroutine of browseWithSync up to its call of backgroundSync: the
\* same pull, a failed write being passed over. A detector observing the
\* directory would emit a change for each file written.
BrowsePull(net, failing, ord) ==
    /\ run.mode = "browse" /\ run.pc = "body"
    /\ ord \in Orders(IF net = "ok" THEN PullQuery(notes, NoSince) ELSE {})
    /\ failing \subseteq PullQuery(notes, NoSince)
    /\ net # "ok" => failing = {}
    /\ disk' = ApplyPull(disk, notes, ord, failing, FALSE).disk
    /\ run' = [run EXCEPT !.pc = "sync",
                          !.restored = {p \in Paths : disk[p] = NoFile /\ disk'[p] # NoFile}]
    /\ pulled' = IF net = "down" THEN pulled
                 ELSE [since |-> NoSince, timestamp |-> now,
                       changes |-> [p \in PullQuery(notes, NoSince) |-> notes[p]]]
    /\ LET events == IF Observing(run.pc)
                     THEN SelectSeq([i \in 1..Len(ord) |-> FileChange(ord[i], disk'[ord[i]])],
                                    LAMBDA ch : ch.path \notin failing)
                     ELSE <<>>
       IN /\ order' = order \o events
          /\ loop' = IF loop = NoChange /\ events # <<>> THEN Head(events) ELSE loop
    /\ UNCHANGED <<route, now, notes, syncLog, reqs, pushes, last, lastUpsert, report>>
    /\ UNCHANGED <<clock, nEvents, debounce, changes, emits, example, clean, allSynced>>
    /\ UNCHANGED <<pulling, seen, shutdown, nRuns, flight>>
    /\ UNCHANGED uiVars
    /\ UNCHANGED storeVars

\* watchBackground and backgroundSync up to the loop: watcher.New (ok: it
\* succeeded) and Watch. A failure ends -watch with the error; under the
\* terminal UI it is shown and the process ends when the user quits.
StartWatch(ok) ==
    /\ \/ run.mode \in {"watch", "create"} /\ run.pc = "body"
       \/ run.mode = "browse" /\ run.pc = "sync"
    /\ run' = [run EXCEPT !.pc = IF ok THEN "watch" ELSE "done",
                          !.err = ~ok /\ run.mode = "watch"]
    /\ debounce' = [n \in Names |-> NoStamp]
    /\ UNCHANGED <<clock, disk, nEvents, changes, loop, emits, example, clean, allSynced>>
    /\ UNCHANGED <<pulling, seen, shutdown, nRuns, flight, order>>
    /\ UNCHANGED uiVars
    /\ UNCHANGED <<serverVars, storeVars>>

\* The watch loop has received a change, processes it and calls
\* client.Push with it.
WatchSend ==
    /\ run.pc = "watch"
    /\ loop # NoChange
    /\ ~Pushing(flight)
    /\ flight' = Append(flight, loop)
    /\ order' = SubSeq(order, 2, Len(order))
    /\ UNCHANGED <<pulling, seen, shutdown, run, nRuns>>
    /\ UNCHANGED uiVars
    /\ UNCHANGED <<serverVars, watchVars, storeVars>>

\* client.Push returns to the watch loop, which reports, sleeps 100 ms
\* and receives the next change.
WatchReturn(net) ==
    /\ run.pc = "watch"
    /\ flight # <<>>
    /\ LET m == ProcessNote(Head(flight).path, Head(flight).content, Head(flight).action)
           st == IF net # "down"
                 THEN ServeOne(route, [notes |-> notes, last |-> last,
                                       lastUpsert |-> lastUpsert, syncLog |-> syncLog],
                               m, now)
                 ELSE [notes |-> notes, last |-> last, lastUpsert |-> lastUpsert,
                       syncLog |-> syncLog]
           rq == AfterItem(route, NewRequest(LoopOf(run.mode), "notes-cli", 1), m, TRUE, TRUE)
       IN /\ notes' = st.notes
          /\ last' = st.last
          /\ lastUpsert' = st.lastUpsert
          /\ syncLog' = st.syncLog
          /\ report' = Reported(LoopOf(run.mode), rq, net = "ok")
    /\ allSynced' = (allSynced /\ net = "ok")
    /\ flight' = AfterPush(flight, net)
    /\ loop' = changes
    /\ changes' = NoChange
    /\ UNCHANGED <<route, now, reqs, pushes, pulled>>
    /\ UNCHANGED <<clock, disk, nEvents, debounce, emits, example, clean>>
    /\ UNCHANGED <<pulling, seen, shutdown, run, nRuns, order>>
    /\ UNCHANGED uiVars
    /\ UNCHANGED storeVars

\* A file is written or removed under the detector of the invocation.
Watched(name, op, c, readOk) ==
    /\ run.pc = "watch"
    /\ nEvents < MaxEdits
    /\ Detect(name, op, c, readOk)

\* A note file is written or removed while no detector is watching.
Edit(p, c) ==
    /\ run.pc # "watch"
    /\ nEvents < MaxEdits
    /\ nEvents' = nEvents + 1
    /\ disk' = [disk EXCEPT ![p] = c]
    /\ UNCHANGED <<clock, debounce, changes, loop, emits, example, clean, allSynced>>
    /\ UNCHANGED <<serverVars, storeVars, cliVars>>

\* ----------------------------------------------------- browser store actions
\* The update calls started in a step, counted per id (2 stands for more).
CountCalls(bc, started) ==
    [i \in Ids |->
        IF \E e \in started : e.type = "update" /\ e.id = i
        THEN (IF bc[i] < 2 THEN bc[i] + 1 ELSE 2)
        ELSE bc[i]]

\* addNote(title, content): the optimistic note goes into the list; the src
\* copy queues its create under the temporary id and runs processQueue, the
\* webapp copy waits for the first save.
AddNote(u) ==
    /\ ~added
    /\ nOps < MaxOps
    /\ added' = TRUE
    /\ nOps' = nOps + 1
    /\ storeNotes' = storeNotes \cup
          {[id |-> "temp-1", title |-> u.title, content |-> u.content,
            status |-> "pending", tempId |-> "temp-1"]}
    /\ LET q == IF route = "src"
                THEN MapSet(syncQueue, [key |-> "temp-1", type |-> "create",
                                        id |-> "temp-1", payload |-> u])
                ELSE syncQueue
           st == IF route = "src"
                 THEN ProcessQueue(route, storeNotes', q, inflight, processing)
                 ELSE [queue |-> q, inflight |-> inflight, processing |-> processing]
       IN /\ syncQueue' = st.queue
          /\ inflight' = st.inflight
          /\ processing' = st.processing
          /\ burstCalls' = CountCalls(burstCalls, st.inflight \ inflight)
    /\ UNCHANGED <<debounceTimer, edited, lastEdit, dirty, unconfirmedDeleted, cache, served>>
    /\ UNCHANGED <<serverVars, watchVars, cliVars>>

\* updateNote(id, updates) on a visible note: the note takes the updates and
\* becomes pending. The src copy queues the update under update-<id> and
\* restarts the debounce timer; the webapp copy queues a create under
\* create-<id> for a temporary id, else the update, and runs processQueue.
UpdateNote(id, u) ==
    /\ \E n \in storeNotes : n.id = id
    /\ nOps < MaxOps
    /\ nOps' = nOps + 1
    /\ storeNotes' = {IF n.id = id
                      THEN [n EXCEPT !.title = u.title, !.content = u.content,
                                     !.status = "pending"]
                      ELSE n : n \in storeNotes}
    /\ LET e == IF route = "webapp" /\ IsTemp(id)
                THEN [key |-> "create-" \o id, type |-> "create", id |-> id,
                      payload |-> NoEntry]
                ELSE [key |-> "update-" \o id, type |-> "update", id |-> id,
                      payload |-> u]
           q == MapSet(syncQueue, e)
           st == IF route = "webapp"
                 THEN ProcessQueue(route, storeNotes', q, inflight, processing)
                 ELSE [queue |-> q, inflight |-> inflight, processing |-> processing]
       IN /\ syncQueue' = st.queue
          /\ inflight' = st.inflight
          /\ processing' = st.processing
          /\ burstCalls' = CountCalls(
                [burstCalls EXCEPT ![id] = IF edited[id] = "recent" THEN @ ELSE 0],
                st.inflight \ inflight)
    /\ debounceTimer' = IF route = "src" THEN "armed" ELSE debounceTimer
    /\ edited' = [edited EXCEPT ![id] = "recent"]
    /\ lastEdit' = [lastEdit EXCEPT ![id] = u]
    /\ dirty' = IF \E x \in inflight : x.type \in {"create", "update"} /\ x.id = id
                THEN dirty \cup {id}
                ELSE dirty
    /\ UNCHANGED <<added, unconfirmedDeleted, cache, served>>
    /\ UNCHANGED <<serverVars, watchVars, cliVars>>

\* deleteNote(id) on a visible note: the note leaves the list; for a
\* temporary id the key <id> is deleted from the queue and nothing is sent,
\* else the delete is queued under delete-<id> and processQueue runs.
DeleteNote(id) ==
    /\ \E n \in storeNotes : n.id = id
    /\ nOps < MaxOps
    /\ nOps' = nOps + 1
    /\ storeNotes' = {n \in storeNotes : n.id # id}
    /\ LET q == IF IsTemp(id)
                THEN MapDelete(syncQueue, id)
                ELSE MapSet(syncQueue, [key |-> "delete-" \o id, type |-> "delete",
                                        id |-> id, payload |-> NoEntry])
           st == IF IsTemp(id)
                 THEN [queue |-> q, inflight |-> inflight, processing |-> processing]
                 ELSE ProcessQueue(route, storeNotes', q, inflight, processing)
       IN /\ syncQueue' = st.queue
          /\ inflight' = st.inflight
          /\ processing' = st.processing
          /\ burstCalls' = CountCalls(burstCalls, st.inflight \ inflight)
    /\ unconfirmedDeleted' = IF IsTemp(id) THEN unconfirmedDeleted \cup {id}
                             ELSE unconfirmedDeleted
    /\ UNCHANGED <<debounceTimer, added, edited, lastEdit, dirty, cache, served>>
    /\ UNCHANGED <<serverVars, watchVars, cliVars>>

\* 500 ms pass without an edit: a running debounce timer is due, and the
\* edits made so far are at least 500 ms old.
Elapse ==
    /\ debounceTimer = "armed" \/ \E i \in Ids : edited[i] = "recent"
    /\ debounceTimer' = IF debounceTimer = "armed" THEN "due" ELSE debounceTimer
    /\ edited' = [i \in Ids |-> IF edited[i] = "recent" THEN "settled" ELSE edited[i]]
    /\ UNCHANGED <<storeNotes, syncQueue, processing, inflight, added, nOps, lastEdit,
                   burstCalls, dirty, unconfirmedDeleted, cache, served>>
    /\ UNCHANGED <<serverVars, watchVars, cliVars>>

\* The callback of processQueueDebounced's setTimeout runs processQueue.
TimerFire ==
    /\ debounceTimer = "due"
    /\ debounceTimer' = "off"
    /\ LET st == ProcessQueue(route, storeNotes, syncQueue, inflight, processing)
       IN /\ syncQueue' = st.queue
          /\ inflight' = st.inflight
          /\ processing' = st.processing
          /\ burstCalls' = CountCalls(burstCalls, st.inflight \ inflight)
    /\ UNCHANGED <<storeNotes, added, nOps, edited, lastEdit, dirty, unconfirmedDeleted, cache, served>>
    /\ UNCHANGED <<serverVars, watchVars, cliVars>>

\* The request of a call in flight reaches the server, which applies it;
\* the answer is on its way.
ServerApply(e) ==
    /\ e \in inflight \ served
    /\ CanApply(notes, e)
    /\ notes' = Serve(notes, e, now)
    /\ served' = served \cup {e}
    /\ UNCHANGED <<storeNotes, syncQueue, processing, inflight, debounceTimer, added, nOps,
                   edited, lastEdit, burstCalls, dirty, unconfirmedDeleted, cache>>
    /\ UNCHANGED <<route, now, syncLog, reqs, pushes, last, lastUpsert, pulled, report>>
    /\ UNCHANGED <<watchVars, cliVars>>

\* The network call of e returns: the server applied it (now, or before)
\* and answered ok, or the call failed (!res.ok, or fetch threw, also with
\* the answer lost). The sync function applies the confirmation, or the
\* worker's catch block marks the error; the worker then goes on with the
\* queue.
Complete(e, ok) ==
    /\ e \in inflight
    /\ ok => (e \in served \/ CanApply(notes, e))
    /\ notes' = IF ok /\ e \notin served THEN Serve(notes, e, now) ELSE notes
    /\ served' = served \ {e}
    /\ storeNotes' = IF ok THEN Confirmed(route, storeNotes, e) ELSE MarkError(storeNotes, e)
    /\ LET st == WorkerLoop(route, storeNotes', syncQueue, inflight \ {e})
       IN /\ syncQueue' = st.queue
          /\ inflight' = st.inflight
          /\ processing' = st.processing
          /\ burstCalls' = CountCalls(burstCalls, st.inflight \ inflight)
    /\ dirty' = dirty \ {e.id}
    /\ UNCHANGED <<debounceTimer, added, nOps, edited, lastEdit, unconfirmedDeleted, cache>>
    /\ UNCHANGED <<route, now, syncLog, reqs, pushes, last, lastUpsert, pulled, report>>
    /\ UNCHANGED <<watchVars, cliVars>>

\* The page is refreshed and initialNotes arrive from the server; only the
\* webapp copy has the effect that merges them.
Reload ==
    /\ route = "webapp"
    /\ storeNotes' = Merge(storeNotes, ServerNotes(notes))
    /\ cache' = IF ServerNotes(notes) = {} THEN cache ELSE ServerNotes(notes)
    /\ UNCHANGED <<syncQueue, processing, inflight, debounceTimer, added, nOps, edited,
                   lastEdit, burstCalls, dirty, unconfirmedDeleted, served>>
    /\ UNCHANGED <<serverVars, watchVars, cliVars>>

\* The page is loaded anew (a browser reload): the answers of the calls in
\* flight are never handled, and the provider mounts with fresh state, an
\* empty queue and no timer.
Remount ==
    /\ LET st == Mount(route, ServerNotes(notes), cache)
       IN /\ storeNotes' = st.notes
          /\ cache' = st.cache
    /\ syncQueue' = <<>>
    /\ processing' = FALSE
    /\ inflight' = {}
    /\ served' = {}
    /\ debounceTimer' = "off"
    /\ dirty' = {}
    /\ UNCHANGED <<added, nOps, edited, lastEdit, burstCalls, unconfirmedDeleted>>
    /\ UNCHANGED <<serverVars, watchVars, cliVars>>

\* Another client deletes a note on the server (a delete pushed to
\* /api/sync, or DELETE /api/notes/[id] from another browser).
RemoteDelete(p) ==
    /\ notes[p].exists
    /\ notes[p].deletedAt = NoTime
    /\ notes' = SoftDelete(notes, [path |-> p], now)
    /\ UNCHANGED <<route, now, syncLog, reqs, pushes, last, lastUpsert, pulled, report>>
    /\ UNCHANGED clientVars

\* ------------------------------------------------------ terminal UI actions
\* notesLoadedMsg: SetNotes replaces the list and filters it again.
SetNotes(list) ==
    /\ selected # Panicked
    /\ browseNotes' = list
    /\ LET f == UpdateFilter(list, searchQuery, cursorPosition)
       IN /\ filteredNotes' = f.filteredNotes
          /\ cursorPosition' = f.cursorPosition
    /\ UNCHANGED <<searchQuery, width, height, selected>>
    /\ UNCHANGED <<pulling, seen, shutdown, run, nRuns, flight, order>>
    /\ UNCHANGED <<serverVars, watchVars, storeVars>>

\* BrowseModel.Update in the browse view.
Update(msg) ==
    /\ selected # Panicked
    /\ (msg.key = "rune" /\ msg.Runes[1] >= 32 /\ msg.Runes[1] # 127) =>
            Len(searchQuery) < MaxQuery
    /\ LET typed == msg.type = "KeyMsg" /\ msg.key = "rune" /\ Len(msg.Runes) = 1
                       /\ msg.Runes[1] >= 32 /\ msg.Runes[1] # 127
           query == IF msg.type # "KeyMsg" THEN searchQuery
                    ELSE IF msg.key = "backspace" /\ Len(searchQuery) > 0
                         THEN SubSeq(searchQuery, 1, Len(searchQuery) - 1)
                    ELSE IF msg.key = "ctrl+u" THEN <<>>
                    ELSE IF typed THEN searchQuery \o <<msg.Runes[1]>>
                    ELSE searchQuery
           filters == /\ msg.type = "KeyMsg"
                      /\ \/ msg.key = "backspace" /\ Len(searchQuery) > 0
                         \/ msg.key = "ctrl+u"
                         \/ typed
           f == UpdateFilter(browseNotes, query, cursorPosition)
       IN /\ searchQuery' = query
          /\ filteredNotes' = IF filters THEN f.filteredNotes ELSE filteredNotes
          /\ cursorPosition' =
                IF msg.type # "KeyMsg" THEN cursorPosition
                ELSE IF msg.key = "up"
                     THEN (IF cursorPosition > 0 THEN cursorPosition - 1 ELSE cursorPosition)
                ELSE IF msg.key = "down"
                     THEN (IF cursorPosition < Len(filteredNotes) - 1
                           THEN cursorPosition + 1 ELSE cursorPosition)
                ELSE IF msg.key = "home" THEN 0
                ELSE IF msg.key = "end" THEN Len(filteredNotes) - 1
                ELSE IF filters THEN f.cursorPosition
                ELSE cursorPosition
    /\ width' = IF msg.type = "WindowSizeMsg" THEN 80 ELSE width
    /\ height' = IF msg.type = "WindowSizeMsg" THEN 24 ELSE height
    /\ UNCHANGED <<browseNotes, selected>>
    /\ UNCHANGED <<pulling, seen, shutdown, run, nRuns, flight, order>>
    /\ UNCHANGED <<serverVars, watchVars, storeVars>>

\* The enter key in the browse view: Model.Update asks for the selected
\* note to open it in the editor.
Enter ==
    /\ selected # Panicked
    /\ selected' = GetSelectedNote(filteredNotes, cursorPosition)
    /\ UNCHANGED <<browseNotes, filteredNotes, searchQuery, cursorPosition, width, height>>
    /\ UNCHANGED <<pulling, seen, shutdown, run, nRuns, flight, order>>
    /\ UNCHANGED <<serverVars, watchVars, storeVars>>

\* ------------------------------------------------------------------ claims
Upserted(p) == last[p] \in {"insert", "overwrite"}
SentPaths(rq) == {rq.sent[i].path : i \in 1..Len(rq.sent)}
Answered(rq) == rq.phase = "done" /\ rq.status = 200
\* This step is the handler r processing a change for path p.
ItemStep(r, p) ==
    /\ reqs[r].phase = "loop"
    /\ reqs'[r].phase # "idle"
    /\ Len(reqs'[r].sent) = Len(reqs[r].sent) + 1
    /\ reqs'[r].sent[Len(reqs'[r].sent)].path = p
WroteStep(r, p) == ItemStep(r, p) /\ reqs'[r].sent[Len(reqs'[r].sent)].wrote

C2_UpsertClearsTombstone ==
    \A p \in Paths : Upserted(p) =>
        /\ notes[p].exists
        /\ notes[p].deletedAt = NoTime
        /\ p \in PullQuery(notes, NoSince)

\* C3: a pull without watermark issued right after a push answered with
\* path p in accepted, for a create/update of p, returns a note at p with
\* the content that mutation carried.
C3_RoundTrip ==
    [][Pull(NoSince) =>
         \A p \in Paths :
            (Answered(reqs["r1"]) /\ p \in Range(reqs["r1"].accepted) /\ Upserted(p)) =>
               /\ p \in DOMAIN pulled'.changes
               /\ pulled'.changes[p].content = lastUpsert[p].content]_vars

\* C4: a pull without watermark returns no note with deletedAt set, and
\* omits every path whose last completed write is a delete.
C4_PullOmitsTombstones ==
    [][Pull(NoSince) =>
         /\ \A p \in DOMAIN pulled'.changes : pulled'.changes[p].deletedAt = NoTime
         /\ \A p \in Paths : last[p] = "delete" => p \notin DOMAIN pulled'.changes]_vars

\* A pull without watermark, made after a.md was deleted, that returned
\* b.md and not the tombstoned a.md.
C4_Witness ==
    /\ pulled.since = NoSince
    /\ last["a.md"] = "delete"
    /\ notes["a.md"].exists
    /\ notes["a.md"].deletedAt # NoTime
    /\ notes["a.md"].deletedAt < pulled.timestamp
    /\ DOMAIN pulled.changes = {"b.md"}

\* C5: a pull whose watermark is before the time a row was deleted returns
\* that row, with deletedAt set.
C5_PullAfterDeleteObservable ==
    [][\A since \in 0..MaxClock : Pull(since) =>
         \A p \in Paths :
            (notes[p].exists /\ notes[p].deletedAt # NoTime /\ since < notes[p].deletedAt) =>
               /\ p \in DOMAIN pulled'.changes
               /\ pulled'.changes[p].deletedAt # NoTime]_vars

\* C6: in every reply accepted and conflicts are disjoint and cover the
\* paths of the batch; a change whose note write completed is in accepted
\* only, one whose note write raised is in conflicts only.
C6_ReplyPartition ==
    \A r \in Requests : Answered(reqs[r]) =>
        /\ Range(reqs[r].accepted) \cap Range(reqs[r].conflicts) = {}
        /\ Range(reqs[r].accepted) \cup Range(reqs[r].conflicts) = SentPaths(reqs[r])
        /\ \A i \in 1..Len(reqs[r].sent) :
              IF reqs[r].sent[i].wrote
              THEN /\ reqs[r].sent[i].path \in Range(reqs[r].accepted)
                   /\ reqs[r].sent[i].path \notin Range(reqs[r].conflicts)
              ELSE /\ reqs[r].sent[i].path \in Range(reqs[r].conflicts)
                   /\ reqs[r].sent[i].path \notin Range(reqs[r].accepted)

\* C7: a change whose write raises a storage error leaves every row as it
\* was (nothing applied earlier is rolled back) and does not end the loop:
\* the handler goes on to the next change, and it answers only when every
\* change of the batch has been attempted.
C7_ErrorDoesNotAbort ==
    [][\A r \in Requests :
         /\ \A p \in Paths : (ItemStep(r, p) /\ ~WroteStep(r, p)) =>
               /\ notes' = notes
               /\ Len(reqs'[r].sent) < reqs[r].n => reqs'[r].phase = "loop"
         /\ (reqs'[r].phase \in {"log", "done"} /\ reqs'[r].status = 200) =>
               Len(reqs'[r].sent) = reqs'[r].n]_vars

\* A batch answered with the first change in conflicts and the second one,
\* attempted after it, accepted and in the store.
C7_Witness ==
    /\ Answered(reqs["r1"])
    /\ reqs["r1"].sent = <<[path |-> "a.md", wrote |-> FALSE], [path |-> "b.md", wrote |-> TRUE]>>
    /\ reqs["r1"].conflicts = <<"a.md">>
    /\ reqs["r1"].accepted = <<"b.md">>
    /\ notes["b.md"].exists
    /\ last["b.md"] = "insert"

\* C8: a path whose audit insert failed after its note write succeeded is
\* in accepted, is not in conflicts, and the push answers normally.
C8_AuditFailureSwallowed ==
    \A r \in Requests : reqs[r].phase = "done" =>
        \A p \in reqs[r].logFailed :
            /\ reqs[r].status = 200
            /\ p \in Range(reqs[r].accepted)
            /\ p \notin Range(reqs[r].conflicts)

\* C9: a push that returned with a number of accepted paths different from
\* the number of notes sent is reported as failed by the Go caller.
C9_PartialAcceptReportedFailed ==
    (report # NoReport /\ ~report.err /\ report.accepted # report.sent) =>
        report.outcome = "failed"

\* C10: when the create/update mutation whose write completes on a path
\* carries the same title, content and checksum as the one applied to that
\* path before it, the row's content and checksum do not change and the path
\* is in accepted.
C10_Idempotent ==
    [][\A r \in Requests, p \in Paths :
         (WroteStep(r, p) /\ last'[p] # "delete" /\ lastUpsert'[p].repeat) =>
              /\ notes[p].exists /\ notes'[p].exists
              /\ notes'[p].content = notes[p].content
              /\ notes'[p].checksum = notes[p].checksum
              /\ p \in Range(reqs'[r].accepted)]_vars

\* A path written a second time by an accepted update identical to the one
\* before it, its row holding the content and the hash of the content.
C10_Witness ==
    /\ Answered(reqs["r2"])
    /\ reqs["r2"].accepted = <<"a.md">>
    /\ last["a.md"] = "overwrite"
    /\ lastUpsert["a.md"].repeat
    /\ notes["a.md"].content = "# H"
    /\ notes["a.md"].checksum = CalculateChecksum("# H")

\* C11: a delete whose write completes keeps the row of its path, leaves the
\* row's title, content, checksum and updatedAt as they were, sets its
\* deletedAt to the current time, and modifies no other row.
C11_DeleteOnlyTombstones ==
    [][\A r \in Requests, p \in Paths :
         (WroteStep(r, p) /\ last'[p] = "delete") =>
              /\ notes'[p].exists = notes[p].exists
              /\ notes[p].exists =>
                    /\ notes'[p].title = notes[p].title
                    /\ notes'[p].content = notes[p].content
                    /\ notes'[p].checksum = notes[p].checksum
                    /\ notes'[p].updatedAt = notes[p].updatedAt
                    /\ notes'[p].deletedAt = now
              /\ \A q \in Paths \ {p} : notes'[q] = notes[q]]_vars

\* a.md, written at time 1 with a content, was deleted at time 2: its row is
\* retained with that content; the row of b.md is live.
C11_Witness ==
    /\ last["a.md"] = "delete"
    /\ notes["a.md"].exists
    /\ notes["a.md"].updatedAt = 1
    /\ notes["a.md"].deletedAt = 2
    /\ notes["a.md"].content = "# H"
    /\ notes["a.md"].checksum = CalculateChecksum("# H")
    /\ notes["b.md"].exists
    /\ notes["b.md"].deletedAt = NoTime

\* The time of the last mutation emitted for a path, or NoStamp.
LastEmit(p) == IF emits[p] = <<>> THEN NoStamp ELSE emits[p][Len(emits[p])]
\* The change the detector sends in this step.
Sent == IF loop = NoChange THEN loop' ELSE changes'

\* C12: while the events of a note file are writes whose reads succeed, a
\* mutation is emitted for a write event exactly when no mutation was
\* emitted for that path less than 500 ms before it (dropped events and
\* events of other names do not count); the mutation carries the path and
\* the content of the file at that time, and the event leaves the other
\* names' debounce stamps alone. Writes to a.md read at 0, 100, 600 and
\* 650 ms yield exactly two mutations, at 0 and 600 ms.
C12_RateLimit ==
    /\ [][\A name \in Paths, c \in Contents :
            (nEvents' # nEvents /\ clean[name] /\ Detect(name, "WRITE", c, TRUE)) =>
               /\ (emits'[name] # emits[name]) <=>
                     (LastEmit(name) = NoStamp \/ clock - LastEmit(name) >= DebounceWindow)
               /\ (emits'[name] # emits[name]) =>
                     /\ emits'[name] = Append(emits[name], clock)
                     /\ Sent = [path |-> name, content |-> disk'[name], action |-> "update"]
               /\ (emits'[name] = emits[name]) => (changes' = changes /\ loop' = loop)
               /\ \A q \in Names \ {name} : debounce'[q] = debounce[q]
               /\ \A q \in Paths \ {name} : emits'[q] = emits[q]]_vars
    /\ [](example = Len(ExampleTimes) => emits["a.md"] = <<0, 12>>)

\* The four writes of the example were read, at 0, 100, 600 and 650 ms, and
\* two mutations were emitted for them, at 0 and 600 ms.
C12_Witness ==
    /\ example = 4
    /\ clock = 13
    /\ clean["a.md"]
    /\ emits["a.md"] = <<0, 12>>
    /\ debounce["a.md"] = 12

\* C13: in watch mode with every read and every push succeeding, when the
\* detector and the watch loop have nothing left to do, the server holds
\* the on-disk content of every note file a mutation was emitted for (so it
\* holds the final content if the writes stop there).
C13_ConvergesWhenQuiet ==
    (changes = NoChange /\ loop = NoChange /\ allSynced) =>
        \A p \in Paths : (clean[p] /\ emits[p] # <<>>) =>
            /\ notes[p].exists
            /\ notes[p].content = disk[p]

\* The keys and the mutations of the browser store's queue.
Queued(q) == {q[i] : i \in 1..Len(q)}
\* The network calls a step starts.
Started == inflight' \ inflight
\* The visible notes that show the note a mutation for id names.
NotesOf(list, id) == {n \in list : n.id = id \/ n.id = ServerIdOf(id) \/ n.tempId = id}

\* C14: the queue holds at most one mutation per key; the edits of one note
\* that follow one another within the debounce interval lead to one update
\* call; and an update call in flight with no edit made since it started
\* carries the values of the note's last edit.
C14_EditsCollapse ==
    /\ \A i, j \in 1..Len(syncQueue) : syncQueue[i].key = syncQueue[j].key => i = j
    /\ \A id \in Ids : burstCalls[id] <= 1
    /\ \A e \in inflight :
          (e.type = "update" /\ e.id \notin dirty) => e.payload = lastEdit[e.id]

\* C15: at most one mutation is in flight, whatever the edits, deletes,
\* timers and completions.
C15_OneInFlight == Cardinality(inflight) <= 1

\* C15 witness: a call is in flight, a second mutation waits in the queue
\* for it, and the sole worker is running.
C15_Witness ==
    /\ Cardinality(inflight) = 1
    /\ Len(syncQueue) >= 1
    /\ processing
    /\ \E e \in inflight : e.type = "update" /\ syncQueue[1].type = "delete"

\* C16: an update call starts only when 500 ms have passed since the last
\* edit of its note, whatever operation the step is (a create, a delete, a
\* completion, a timer).
C16_TrailingDebounce ==
    [][\A e \in Started : e.type = "update" => edited'[e.id] = "settled"]_vars

\* C17: when the call for a mutation fails, the notes the mutation names
\* get the status error, and the mutation is neither queued nor sent again
\* unless it was queued anew before.
C17_FailureMarksError ==
    [][\A e \in inflight : Complete(e, FALSE) =>
          /\ \A n \in NotesOf(storeNotes', e.id) : n.status = "error"
          /\ e \in (Queued(syncQueue') \cup inflight') => e \in Queued(syncQueue)]_vars

\* C18: once deleteNote ran for a note the server has not confirmed, no
\* call for that note is in flight or queued, and the server holds no row
\* for it.
C18_UnconfirmedDeleteStaysLocal ==
    \A id \in unconfirmedDeleted :
        /\ ~\E e \in inflight \cup Queued(syncQueue) : e.id = id
        /\ ~notes[PathOf(id)].exists

\* C19: when the server confirms a create or an update of a note that was
\* edited while the call was in flight, the visible note still shows the
\* title and content of that last edit.
C19_ConfirmKeepsLocalEdit ==
    [][\A e \in inflight :
          (e.type \in {"create", "update"} /\ e.id \in dirty /\ Complete(e, TRUE)) =>
              \A n \in NotesOf(storeNotes', e.id) :
                  /\ n.title = lastEdit[e.id].title
                  /\ n.content = lastEdit[e.id].content]_vars

\* The local notes a reload must keep.
Unsynced(list) == {n \in list : n.status \in {"pending", "syncing"}}

\* C20: after a reload, be it fresh initialNotes reaching the mounted
\* provider or the page loaded anew, every note that was pending or syncing
\* is kept as it was, every other note shown is a note of the server as
\* the server holds it, and every server note of which no pending or
\* syncing note is kept is shown.
C20_ReloadKeepsPending ==
    [][(Reload \/ Remount) =>
          /\ Unsynced(storeNotes) \subseteq storeNotes'
          /\ \A n \in storeNotes' \ Unsynced(storeNotes) : n \in ServerNotes(notes')
          /\ \A n \in ServerNotes(notes') :
                (~\E x \in Unsynced(storeNotes) : x.id = n.id \/ x.tempId = n.id)
                    => n \in storeNotes']_vars

\* C21: when the server confirms the create of a note whose entry with the
\* temporary id is in the list, the list keeps its number of entries and
\* every other entry, has exactly one entry with the server's id for the
\* note and none with the temporary id. (The list is a set here: the order
\* of the entries is no part of this statement.)
C21_ConfirmReplacesInPlace ==
    [][\A e \in inflight :
          (e.type = "create" /\ (\E n \in storeNotes : n.id = e.id) /\ Complete(e, TRUE)) =>
              /\ Cardinality(storeNotes') = Cardinality(storeNotes)
              /\ \A n \in storeNotes : n.id # e.id => n \in storeNotes'
              /\ Cardinality({n \in storeNotes' : n.id = ServerIdOf(e.id)}) = 1
              /\ ~\E n \in storeNotes' : n.id = e.id]_vars

\* C22: no two rows of the notes table share a path or an id, and no two
\* entries of the visible list are of one note (share an id or a path).
C22_IdentityUnique ==
    /\ \A p, q \in Paths :
          (notes[p].exists /\ notes[q].exists /\ IdOfPath(p) = IdOfPath(q)) => p = q
    /\ \A a, b \in storeNotes : (a.id = b.id \/ PathOf(a.id) = PathOf(b.id)) => a = b

\* C23: a client that pulls with the timestamp of its previous pull as
\* since misses no upsert: the rows the query of such a pull selects hold
\* every row whose last write is an upsert and which the client has not
\* received as it is now.
C23_WatermarkMissesNothing ==
    [][(pulling = Idle /\ pulled # NoPull /\ GetQuery(pulled.timestamp)) =>
          \A p \in Paths :
              (notes[p].exists /\ Upserted(p) /\ seen[p] # notes[p])
                  => p \in DOMAIN pulling'.changes]_vars

\* C24: once Close has been called, the channel of changes is closed and
\* the loop ranging over it exits, with nothing but the closed channel as
\* the signal.
C24_CloseEndsLoop == (shutdown = "closing") ~> (shutdown = "exited")

\* The loop has exited after the detector had emitted a change.
C24_Witness == shutdown = "exited" /\ \E n \in Paths : emits[n] # <<>>

\* C25: in the watch modes at most one push is in flight, and the change
\* the loop sends is the oldest one the detector has emitted and the loop
\* has not sent.
C25_OnePushInOrder ==
    [][/\ Len(flight') <= 1
       /\ WatchSend => (flight = <<>> /\ order # <<>> /\ loop = Head(order))]_vars

\* A push is in flight while the detector is blocked sending the next change.
C25_Witness == flight # <<>> /\ changes # NoChange /\ Len(order) = 1

\* A step in which notes-cli calls client.Push or client.Pull (or is about to:
\* pushNotes reads the notes first).
SyncAttempt ==
    \/ \E unreadable \in SUBSET Paths, net \in Nets : RunPush(unreadable, net)
    \/ \E net \in Nets, failing \in SUBSET Paths, ord \in AllOrders :
          RunPull(net, failing, ord) \/ BrowsePull(net, failing, ord)
    \/ WatchSend

\* C26: a push or a pull is attempted only in a run in which config.Load
\* and Authenticate have both succeeded, and a run in which one of them
\* failed has ended with the error, in every mode that loads the
\* configuration.
C26_SyncOnlyAfterAuth ==
    [][/\ SyncAttempt => (run.cfg /\ run.auth)
       /\ (run'.mode # "init" /\ run'.pc \notin {"idle", "config", "auth"}
             /\ ~(run'.cfg /\ run'.auth))
          => (run'.pc = "done" /\ run'.err)]_vars

\* The browser mode, authenticated, has pulled and is pushing a change.
C26_Witness ==
    run.mode = "browse" /\ run.cfg /\ run.auth /\ pulled # NoPull /\ flight # <<>>

\* C27: a push that ends with a network or protocol error is over: in the
\* watch modes nothing stays in flight or is queued again and the loop has
\* taken the next change; in the one-shot modes the run has ended with the
\* error.
C27_FailedPushNotRetried ==
    [][/\ \A net \in {"lost", "down"} :
             WatchReturn(net) =>
                 /\ flight' = <<>> /\ order' = order
                 /\ loop' = changes /\ run'.pc = "watch"
                 /\ report'.err
       /\ \A net \in {"lost", "down"}, ps \in SUBSET Paths, ord \in AllOrders :
             (RunPush(ps, net) \/ RunPull(net, ps, ord)) =>
                 (run'.pc = "done" /\ run'.err)]_vars

\* A push of the watch loop has failed and the loop holds the next change.
C27_Witness ==
    /\ run.pc = "watch" /\ report # NoReport /\ report.err
    /\ flight = <<>> /\ loop # NoChange

\* C28: a local I/O error on one item leaves the others processed: reading
\* all notes pushes every readable note and the run does not fail, and a
\* pull writes every returned note whose own mkdir and write succeed.
C28_LocalErrorSkipsItem ==
    [][/\ \A unreadable \in SUBSET Paths :
             RunPush(unreadable, "ok") =>
                 /\ ~run'.err
                 /\ report'.sent = Cardinality({p \in Paths \ unreadable : disk[p] # NoFile})
       /\ \A failing \in SUBSET Paths, ord \in AllOrders :
             (RunPull("ok", failing, ord) \/ BrowsePull("ok", failing, ord)) =>
                 \A p \in PullQuery(notes, NoSince) \ failing :
                     disk'[p] = notes[p].content]_vars

\* C29: applying a pull removes no file, leaves every file alone that is
\* not of a returned note, and, when the pull and its writes succeed, every
\* note that is live on the server has its file, also one that had been
\* deleted locally.
C29_PullOnlyWrites ==
    [][\A net \in Nets, failing \in SUBSET Paths, ord \in AllOrders :
          (RunPull(net, failing, ord) \/ BrowsePull(net, failing, ord)) =>
              /\ \A p \in Paths : disk[p] # NoFile => disk'[p] # NoFile
              /\ \A p \in Paths \ Range(ord) : disk'[p] = disk[p]
              /\ (net = "ok" /\ failing = {}) =>
                    \A p \in PullQuery(notes, NoSince) : disk'[p] # NoFile]_vars

\* A pull has written again a file that had been removed, next to a file
\* that is removed and stays so (its note is not on the server).
C29_Witness ==
    /\ run.pc \in {"done", "sync"} /\ run.restored # {}
    /\ \E p \in Paths : disk[p] = NoFile

KeysOf(q) == {q[i].key : i \in 1..Len(q)}
\* The possible keys of queue entries.
Keys == Ids \cup {"update-" \o i : i \in Ids} \cup {"delete-" \o i : i \in Ids}
           \cup {"create-" \o i : i \in Ids}

\* C31: a queued mutation leaves the queue only by being submitted (its
\* call is in flight), or by being removed because its note was deleted
\* before confirmation; with the worker idle and no debounce timer pending
\* the queue is empty; and, every network call returning and timers
\* firing, every key that is in the queue eventually is not.
C31_QueueDrained ==
    /\ [][\A e \in Queued(syncQueue) :
             e.key \notin KeysOf(syncQueue') =>
                 \/ e.type = "create" /\ ~\E n \in storeNotes' : n.id = e.id
                 \/ Resolve(route, storeNotes', e) \in inflight']_vars
    /\ []((~processing /\ debounceTimer = "off") => syncQueue = <<>>)
    /\ \A k \in Keys : (k \in KeysOf(syncQueue)) ~> (k \notin KeysOf(syncQueue))

\* The worker is idle again, with an empty queue and no timer, after an
\* update was queued and its call made.
C31_Witness ==
    /\ ~processing /\ debounceTimer = "off" /\ syncQueue = <<>> /\ inflight = {}
    /\ \E i \in Ids : edited[i] # "never" /\ burstCalls[i] > 0

\* C32: a note follows the status machine: an edit leaves it pending,
\* while a create or update of it is in flight it is syncing, and a
\* confirmation leaves it synced.
C32_StatusMachine ==
    [][/\ \A id \in Ids, u \in Edits :
             UpdateNote(id, u) => \A n \in storeNotes' : n.id = id => n.status = "pending"
       /\ \A e \in inflight' :
             e.type \in {"create", "update"} =>
                 \A n \in storeNotes' : n.id = e.id => n.status = "syncing"
       /\ \A e \in inflight :
             (e.type \in {"create", "update"} /\ Complete(e, TRUE)) =>
                 \A n \in storeNotes' : n.id = ServerIdOf(e.id) => n.status = "synced"]_vars

\* C33: every stored note's checksum is the hash of its stored content.
C33_ChecksumMatchesContent ==
    \A p \in Paths : notes[p].exists => notes[p].checksum = CalculateChecksum(notes[p].content)

\* C34: the initial pull of the browse mode emits nothing: the detector
\* hands out no change for a file the pull writes, so none is pushed back.
C34_PullNotDetected ==
    [][\A net \in Nets, failing \in SUBSET Paths, ord \in AllOrders :
          BrowsePull(net, failing, ord) =>
              /\ order' = order /\ loop' = loop /\ changes' = changes
              /\ flight' = flight]_vars

\* The browse mode has written a file in its initial pull and is watching,
\* with no change emitted.
C34_Witness ==
    /\ run.mode = "browse" /\ run.pc = "watch" /\ run.restored # {}
    /\ loop = NoChange /\ order = <<>> /\ flight = <<>>

\* C35: an event changes the last-seen stamp of a path only when a mutation
\* is emitted for the path, and a readable write event of a note file is
\* dropped only when a mutation was emitted for the path within the window
\* before it: events that emit nothing do not make later writes drop.
C35_StampOnlyOnEmit ==
    [][/\ \A p \in Paths :
             (nEvents' # nEvents /\ debounce'[p] # debounce[p]) => emits'[p] # emits[p]
       /\ \A name \in Paths, c \in Contents :
             (nEvents' # nEvents /\ Detect(name, "WRITE", c, TRUE) /\ emits'[name] = emits[name]) =>
                 (LastEmit(name) # NoStamp /\ clock - LastEmit(name) < DebounceWindow)]_vars

\* C36: once Close has been called the watch loop receives no change: a
\* step taken after Close hands the consumer no new mutation.
C36_NothingAfterClose ==
    [][(shutdown # "open" /\ loop' # loop) => loop' = NoChange]_vars

\* The mutations for the note n that are queued or in flight.
MutationsFor(n) ==
    {e \in Queued(syncQueue) \cup inflight : ServerIdOf(e.id) = ServerIdOf(n.id)}

\* C37: a note that is marked synced has no mutation in the queue or in
\* flight.
C37_SyncedMeansNothingPending ==
    \A n \in storeNotes : n.status = "synced" => MutationsFor(n) = {}

\* C38: no update and no delete in flight is addressed to a temporary
\* identity.
C38_CallsUseServerIdentity ==
    \A e \in inflight : e.type \in {"update", "delete"} => ~IsTemp(e.id)

\* The note files holding an edit the server has not accepted: the server,
\* written by this tool's pushes only, has other content for the path.
LocallyEdited ==
    {p \in Paths : disk[p] # NoFile /\ notes[p].exists /\ disk[p] # notes[p].content}

\* C39: the initial pull of the browse mode leaves the content of every
\* locally edited file as it is.
C39_PullKeepsLocalEdits ==
    [][\A net \in Nets, failing \in SUBSET Paths, ord \in AllOrders :
          BrowsePull(net, failing, ord) =>
              \A p \in LocallyEdited : disk'[p] = disk[p]]_vars

\* C40: the browse cursor is never negative, is below the length of the
\* filtered list when that list is not empty, and GetSelectedNote has not
\* indexed out of range.
C40_CursorValid ==
    /\ cursorPosition >= 0
    /\ filteredNotes # <<>> => cursorPosition < Len(filteredNotes)
    /\ selected # Panicked

\* The server with one handler at a time, batches of up to MaxBatch changes.
Next ==
    \/ \E caller \in {"api"}, clientId \in {"", "linux-cli"}, n \in 0..MaxBatch :
          StartPush("r1", caller, clientId, n)
    \/ \E m \in FullMutations, wrote \in BOOLEAN, logged \in BOOLEAN :
          Item("r1", m, wrote, logged)
    \/ \E logged \in BOOLEAN : LogBatch("r1", logged)
    \/ Reply("r1", TRUE)

Spec == Init /\ [][Next]_vars

\* Two handlers interleaving at their database statements, one change each.
\* Note writes may fail; the audit inserts succeed (their failure is part of
\* Spec).
NextConcurrent ==
    \/ \E r \in Requests, clientId \in {"", "linux-cli"} : StartPush(r, "api", clientId, 1)
    \/ \E r \in Requests, m \in ApiMutations, wrote \in BOOLEAN :
          Item(r, m, wrote, TRUE)
    \/ \E r \in Requests : LogBatch(r, TRUE)
    \/ \E r \in Requests : Reply(r, TRUE)

SpecConcurrent == Init /\ [][NextConcurrent]_vars

\* Pushes of one change each, pulls and the passing of time. Note writes may
\* fail; the audit inserts succeed (their failure is part of Spec).
NextPull ==
    \/ Tick
    \/ StartPush("r1", "api", "linux-cli", 1)
    \/ \E m \in FullMutations, wrote \in BOOLEAN : Item("r1", m, wrote, TRUE)
    \/ LogBatch("r1", TRUE)
    \/ Reply("r1", TRUE)
    \/ \E since \in {NoSince} \cup (0..MaxClock) : Pull(since)

SpecPull == Init /\ [][NextPull]_vars

\* The Go command-line modes pushing to the server, one push at a time.
NextCli ==
    \/ \E caller \in GoCallers, n \in 0..MaxBatch : StartPush("r1", caller, "notes-cli", n)
    \/ \E m \in GoMutations, wrote \in BOOLEAN, logged \in BOOLEAN :
          Item("r1", m, wrote, logged)
    \/ \E logged \in BOOLEAN : LogBatch("r1", logged)
    \/ \E delivered \in BOOLEAN : Reply("r1", delivered)

SpecCli == Init /\ [][NextCli]_vars

\* A client pulling first everything and then with the timestamp of its
\* previous pull, while pushes of one change each are applied and time
\* passes; every write succeeds.
NextWatermark ==
    \/ Tick
    \/ StartPush("r1", "api", "linux-cli", 1)
    \/ \E m \in FullMutations : Item("r1", m, TRUE, TRUE)
    \/ LogBatch("r1", TRUE)
    \/ Reply("r1", TRUE)
    \/ GetQuery(IF pulled = NoPull THEN NoSince ELSE pulled.timestamp)
    \/ GetReply

SpecWatermark == Init /\ [][NextWatermark]_vars

\* The change detector and the watch loop of the Go tool pushing to the
\* server: note files are written, every read and every push succeeds.
NextWatch ==
    \/ \E name \in Paths, c \in Contents : Detect(name, "WRITE", c, TRUE)
    \/ WatchPush("watchBackground", TRUE, TRUE)
    \/ WTick

SpecWatch == Init /\ [][NextWatch]_vars

\* The change detector with the watch loop of a workstation that is offline
\* (every push fails); the server, in either copy, plays no part.
NextDetector ==
    \/ \E name \in Names, op \in Ops, c \in Contents, readOk \in BOOLEAN :
          Detect(name, op, c, readOk)
    \/ WatchPush("backgroundSync", FALSE, FALSE)
    \/ WTick

\* The detector started next to the src copy of the server.
InitDetector == Init /\ route = "src"
SpecDetector == InitDetector /\ [][NextDetector]_vars

\* The detector and the watch loop of a process whose Watcher is closed at
\* some point, within one debounce window. The goroutine and the loop are
\* scheduled by the Go runtime,
\* and a push returns (client.New gives the http client a timeout of 30 s):
\* the three are weakly fair.
NextClose ==
    \/ \E name \in Names, op \in Ops, c \in Contents, readOk \in BOOLEAN :
          Detect(name, op, c, readOk)
    \/ \E wrote \in BOOLEAN : WatchPush("watchBackground", wrote, wrote)
    \/ Close
    \/ GoroutineExit
    \/ LoopExit

SpecClose ==
    /\ Init
    /\ [][NextClose]_vars
    /\ WF_vars(\E wrote \in BOOLEAN : WatchPush("watchBackground", wrote, wrote))
    /\ WF_vars(GoroutineExit)
    /\ WF_vars(LoopExit)

\* Invocations of notes-cli, one after the other, in every mode, against
\* the server; note files are written and removed meanwhile, within one
\* debounce window of the detector.
NextRun ==
    \/ \E mode \in Modes : Start(mode)
    \/ \E ok \in BOOLEAN : LoadConfig(ok)
    \/ \E ok \in BOOLEAN : Authenticate(ok)
    \/ \E unreadable \in SUBSET Paths, net \in Nets : RunPush(unreadable, net)
    \/ \E net \in Nets, failing \in SUBSET Paths, ord \in AllOrders : RunPull(net, failing, ord)
    \/ \E net \in Nets, failing \in SUBSET Paths, ord \in AllOrders : BrowsePull(net, failing, ord)
    \/ \E ok \in BOOLEAN : StartWatch(ok)
    \/ \E name \in Names, op \in {"WRITE", "REMOVE"}, c \in Contents, readOk \in BOOLEAN :
          Watched(name, op, c, readOk)
    \/ WatchSend
    \/ \E net \in Nets : WatchReturn(net)
    \/ \E p \in Paths, c \in Contents \cup {NoFile} : Edit(p, c)

SpecRun == Init /\ [][NextRun]_vars

\* The browser store of a page loaded with one note, and the /api/notes
\* handlers answering its calls.
NextStore ==
    \/ \E u \in Edits : AddNote(u)
    \/ \E id \in Ids, u \in Edits : UpdateNote(id, u)
    \/ \E id \in Ids : DeleteNote(id)
    \/ Elapse
    \/ TimerFire
    \/ \E e \in inflight, ok \in BOOLEAN : Complete(e, ok)
    \/ Reload
    \/ Remount
    \/ \E e \in inflight : ServerApply(e)
    \/ \E p \in Paths : RemoteDelete(p)

SpecStore == InitLoaded /\ [][NextStore]_vars

\* Pushes to /api/sync of one change each, from the clients of the
\* repository (the Go tool, and the shell script, which sends neither title
\* nor checksum), next to the calls of a browser store; every statement and
\* every call succeeds.
NextChecksum ==
    \/ \E caller \in {"api", "pushNotes"} : StartPush("r1", caller, "linux-cli", 1)
    \/ \E m \in ScriptMutations \cup GoMutations : Item("r1", m, TRUE, TRUE)
    \/ LogBatch("r1", TRUE)
    \/ Reply("r1", TRUE)
    \/ \E u \in Edits : AddNote(u)
    \/ \E id \in Ids, u \in Edits : UpdateNote(id, u)
    \/ \E id \in Ids : DeleteNote(id)
    \/ Elapse
    \/ TimerFire
    \/ \E e \in inflight, ok \in {TRUE} : Complete(e, ok)

SpecChecksum == InitLoaded /\ [][NextChecksum]_vars

\* The browser store within one page session: every network call returns
\* (with an answer or an error), time passes and a timer that is due fires.
NextDrain ==
    \/ \E u \in Edits : AddNote(u)
    \/ \E id \in Ids, u \in Edits : UpdateNote(id, u)
    \/ \E id \in Ids : DeleteNote(id)
    \/ Elapse
    \/ TimerFire
    \/ \E e \in inflight, ok \in BOOLEAN : Complete(e, ok)

SpecDrain ==
    /\ InitLoaded
    /\ [][NextDrain]_vars
    /\ WF_vars(\E e \in inflight, ok \in BOOLEAN : Complete(e, ok))
    /\ WF_vars(Elapse)
    /\ WF_vars(TimerFire)

\* The browse view of the terminal UI: keys, window sizes, reloads of the
\* note list, and the enter key.
NextBrowse ==
    \/ \E msg \in Msgs : Update(msg)
    \/ \E list \in NoteLists : SetNotes(list)
    \/ Enter

SpecBrowse == Init /\ [][NextBrowse]_vars

====
